---- MODULE Spec2Model ----
(* A model of the agent memory subsystem: the in-memory store               *)
(* (models/agent.model.ts), the memory service (services/memory.service.ts, *)
(* and its two other revisions: the one that validates its arguments and    *)
(* the one with getRelevantMemories) and the orchestrator                   *)
(* (services/agent.service.ts).  JavaScript strings                         *)
(* are sequences of one-character strings, so that the regular expressions, *)
(* trim, toLowerCase and includes are computed character by character.      *)
EXTENDS Integers, Sequences, FiniteSets, TLC

\* ---------------------------------------------------------------------
\* Bounds of the model
\* ---------------------------------------------------------------------
MaxItems == 2
MaxClock == 1

\* the most items of one answer of the model to considerUpdatingMemory
MaxBatch == 2

\* ---------------------------------------------------------------------
\* Characters and strings
\* ---------------------------------------------------------------------
UpperCase == <<"A", "B", "C", "D", "E", "F", "G", "H", "I", "J", "K", "L", "M", "N", "O", "P", "Q", "R", "S", "T", "U", "V", "W", "X", "Y", "Z">>
LowerCase == <<"a", "b", "c", "d", "e", "f", "g", "h", "i", "j", "k", "l", "m", "n", "o", "p", "q", "r", "s", "t", "u", "v", "w", "x", "y", "z">>
Digits == <<"0", "1", "2", "3", "4", "5", "6", "7", "8", "9">>

Range(s) == {s[i] : i \in 1..Len(s)}

\* the lower-case letter of every upper-case letter
LowerOf == [c \in Range(UpperCase) |->
              LowerCase[CHOOSE i \in 1..26 : UpperCase[i] = c]]

\* String.prototype.toLowerCase, one character
ToLowerChar(c) == IF c \in DOMAIN LowerOf THEN LowerOf[c] ELSE c

toLowerCase(s) == [i \in 1..Len(s) |-> ToLowerChar(s[i])]

\* the regular-expression class \s
IsSpace(c) == c \in {" ", "\t", "\n"}

\* the regular-expression class \w
WordChars == Range(UpperCase) \cup Range(LowerCase) \cup Range(Digits) \cup {"_"}

IsWordChar(c) == c \in WordChars

\* the regular-expression class . (no line terminator)
IsDot(c) == c # "\n"

\* String.prototype.substring(from0, to0) with 0-based, end-exclusive indices
substring(s, from0, to0) ==
  LET a == IF from0 < 0 THEN 0 ELSE IF from0 > Len(s) THEN Len(s) ELSE from0
      b == IF to0 < 0 THEN 0 ELSE IF to0 > Len(s) THEN Len(s) ELSE to0
  IN  IF a <= b THEN SubSeq(s, a + 1, b) ELSE SubSeq(s, b + 1, a)

\* String.prototype.trim
trim(s) ==
  LET nonSpace == {i \in 1..Len(s) : ~IsSpace(s[i])}
  IN  IF nonSpace = {} THEN <<>>
      ELSE SubSeq(s, CHOOSE i \in nonSpace : \A j \in nonSpace : i <= j,
                     CHOOSE i \in nonSpace : \A j \in nonSpace : j <= i)

\* the least number of a set of positions, or else what stands for none
LeastOr(positions, none) ==
  IF positions = {} THEN none
  ELSE CHOOSE i \in positions : \A j \in positions : i <= j

\* p occurs in s at 1-based position i
MatchAt(s, i, p) ==
  /\ i >= 1
  /\ i + Len(p) - 1 <= Len(s)
  /\ \A k \in 1..Len(p) : s[i + k - 1] = p[k]

\* the same, ignoring letter case (the i flag)
MatchAtCI(s, i, p) ==
  /\ i >= 1
  /\ i + Len(p) - 1 <= Len(s)
  /\ \A k \in 1..Len(p) : ToLowerChar(s[i + k - 1]) = ToLowerChar(p[k])

\* least position >= from where p occurs in s ignoring case, 0 if none
IndexOfCI(s, p, from) ==
  LeastOr({i \in from..(Len(s) - Len(p) + 1) : MatchAtCI(s, i, p)}, 0)

\* String.prototype.includes
includes(s, p) == \E i \in 1..(Len(s) - Len(p) + 1) : MatchAt(s, i, p)

\* the position just past the longest run, from position i of s, of white
\* space (\s+), of characters of a line (.*), of characters but the dot
\* ([^\.]+)
SpaceRunEnd(s, i) == LeastOr({k \in i..Len(s) : ~IsSpace(s[k])}, Len(s) + 1)

LineEnd(s, i) == LeastOr({k \in i..Len(s) : ~IsDot(s[k])}, Len(s) + 1)

NonDotRunEnd(s, i) == LeastOr({k \in i..Len(s) : s[k] = "."}, Len(s) + 1)

\* ---------------------------------------------------------------------
\* AgentService.sanitizeContent
\* ---------------------------------------------------------------------
MAX_CONTENT_LENGTH == 10000

\* least position >= from where the opening text occurs (ignoring case);
\* with wb the opening text must end at a word boundary (\b)
OpenAt(s, open, wb, from) ==
  LeastOr({i \in from..(Len(s) - Len(open) + 1) :
             /\ MatchAtCI(s, i, open)
             /\ wb => (i + Len(open) > Len(s) \/ ~IsWordChar(s[i + Len(open)]))}, 0)

\* s.replace(/<open ... close/gi, repl): every leftmost, non-overlapping
\* stretch from an opening text to the first closing text after it
RECURSIVE ReplaceDelimited(_, _, _, _, _)
ReplaceDelimited(s, open, wb, close, repl) ==
  LET i == OpenAt(s, open, wb, 1)
      j == IF i = 0 THEN 0 ELSE IndexOfCI(s, close, i + Len(open))
  IN  IF i = 0 \/ j = 0 THEN s
      ELSE SubSeq(s, 1, i - 1) \o repl \o
           ReplaceDelimited(SubSeq(s, j + Len(close), Len(s)), open, wb, close, repl)

sanitizeContent(content) ==
  IF content = <<>> THEN <<>>
  ELSE
    LET s1 == ReplaceDelimited(content, <<"<", "s", "c", "r", "i", "p", "t">>, TRUE, <<"<", "/", "s", "c", "r", "i", "p", "t", ">">>, <<>>)
        s2 == ReplaceDelimited(s1, <<"<", "i", "f", "r", "a", "m", "e">>, TRUE, <<"<", "/", "i", "f", "r", "a", "m", "e", ">">>, <<>>)
        s3 == ReplaceDelimited(s2, <<"<", "i", "m", "g">>, FALSE, <<">">>, <<"[", "I", "M", "A", "G", "E", "]">>)
        s4 == ReplaceDelimited(s3, <<"<">>, FALSE, <<">">>, <<>>)
        s5 == IF Len(s4) > MAX_CONTENT_LENGTH
                THEN substring(s4, 0, MAX_CONTENT_LENGTH) ELSE s4
    IN  trim(s5)

\* ---------------------------------------------------------------------
\* AgentService.extractKeywords
\* ---------------------------------------------------------------------
stopWords ==
  { <<"a">>, <<"a", "n">>, <<"t", "h", "e">>, <<"a", "n", "d">>, <<"b", "u", "t">>, <<"o", "r">>, <<"f", "o", "r">>, <<"n", "o", "r">>,
    <<"o", "n">>, <<"a", "t">>, <<"t", "o">>, <<"f", "r", "o", "m">>, <<"b", "y">>, <<"w", "i", "t", "h">>, <<"i", "n">>, <<"o", "u", "t">>,
    <<"i", "s">>, <<"a", "r", "e">>, <<"a", "m">>, <<"w", "a", "s">>, <<"w", "e", "r", "e">>, <<"b", "e">>, <<"b", "e", "e", "n">>, <<"b", "e", "i", "n", "g">>,
    <<"h", "a", "v", "e">>, <<"h", "a", "s">>, <<"h", "a", "d">>, <<"d", "o">>, <<"d", "o", "e", "s">>, <<"d", "i", "d">>, <<"i">>, <<"y", "o", "u">>,
    <<"h", "e">>, <<"s", "h", "e">>, <<"i", "t">>, <<"w", "e">>, <<"t", "h", "e", "y">>, <<"m", "e">>, <<"h", "i", "m">>, <<"h", "e", "r">>,
    <<"u", "s">>, <<"t", "h", "e", "m">>, <<"w", "h", "a", "t">>, <<"w", "h", "i", "c", "h">>, <<"w", "h", "o">>, <<"w", "h", "o", "m">>, <<"w", "h", "o", "s", "e">>,
    <<"t", "h", "i", "s">>, <<"t", "h", "a", "t">>, <<"t", "h", "e", "s", "e">>, <<"t", "h", "o", "s", "e">>, <<"h", "o", "w">>, <<"w", "h", "y">>, <<"w", "h", "e", "n">>,
    <<"w", "h", "e", "r", "e">> }

\* s.split(/\s+/): the pieces between maximal runs of white space
RECURSIVE SplitSpaces(_)
SplitSpaces(s) ==
  LET sp == {i \in 1..Len(s) : IsSpace(s[i])}
  IN  IF sp = {} THEN <<s>>
      ELSE LET i == CHOOSE k \in sp : \A j \in sp : k <= j
               e == SpaceRunEnd(s, i)
           IN  <<SubSeq(s, 1, i - 1)>> \o SplitSpaces(SubSeq(s, e, Len(s)))

\* [...new Set(words)]: the first occurrence of every element, in order
RECURSIVE Unique(_)
Unique(ws) ==
  IF ws = <<>> THEN <<>>
  ELSE LET init == Unique(SubSeq(ws, 1, Len(ws) - 1))
           w == ws[Len(ws)]
       IN  IF \E i \in 1..Len(init) : init[i] = w THEN init ELSE Append(init, w)

KeepWord(word) == Len(word) > 2 /\ word \notin stopWords

extractKeywords(input) ==
  IF input = <<>> THEN <<>>
  ELSE
    LET lower == toLowerCase(input)
        clean == [i \in 1..Len(lower) |->
                    IF IsWordChar(lower[i]) \/ IsSpace(lower[i]) THEN lower[i] ELSE " "]
        words == SelectSeq(SplitSpaces(clean), KeepWord)
    IN  Unique(words)

\* ---------------------------------------------------------------------
\* AgentService.isAppropriateMemoryContent
\* ---------------------------------------------------------------------
meaninglessPatterns ==
  { <<"y", "e", "s">>, <<"n", "o">>, <<"m", "a", "y", "b", "e">>, <<"o", "k">>, <<"o", "k", "a", "y">>, <<"s", "u", "r", "e">>, <<"t", "h", "a", "n", "k", "s">>,
    <<"t", "h", "a", "n", "k", " ", "y", "o", "u">>, <<"i", " ", "d", "o", "n", "'", "t", " ", "k", "n", "o", "w">>, <<"u", "n", "k", "n", "o", "w", "n">> }

isAppropriateMemoryContent(content) ==
  /\ content # <<>>
  /\ Len(trim(content)) >= 2
  /\ toLowerCase(trim(content)) \notin meaninglessPatterns

\* ---------------------------------------------------------------------
\* AgentService.detectMemoryCommand
\* ---------------------------------------------------------------------
NoCommand ==
  [matched |-> FALSE, type |-> "none", hasDescription |-> FALSE,
   description |-> <<>>, content |-> <<>>]

Command(type, hasDescription, description, content) ==
  [matched |-> TRUE, type |-> type, hasDescription |-> hasDescription,
   description |-> description, content |-> content]

\* the text from position i to the end of its line: the group (.*)
RestOfLine(s, i) == SubSeq(s, i, LineEnd(s, i) - 1)

\* /remember that (.*)/i : group 1 of the leftmost match, matched FALSE if none
rememberMatch(input) ==
  LET i == IndexOfCI(input, <<"r", "e", "m", "e", "m", "b", "e", "r", " ", "t", "h", "a", "t", " ">>, 1)
  IN  IF i = 0 THEN [matched |-> FALSE, g |-> <<>>]
      ELSE [matched |-> TRUE, g |-> RestOfLine(input, i + 14)]

\* remember\s+(my|that my|that) ([^\.]+) tried at position c: the position
\* where group 2 starts, 0 if the pattern does not match at c
pleaseRememberAlternatives == << <<"m", "y">>, <<"t", "h", "a", "t", " ", "m", "y">>, <<"t", "h", "a", "t">> >>

pleaseRememberAt(input, c) ==
  IF ~MatchAtCI(input, c, <<"r", "e", "m", "e", "m", "b", "e", "r">>) THEN 0
  ELSE
    LET e == SpaceRunEnd(input, c + 8)
        ok == {k \in 1..3 :
                 LET a == pleaseRememberAlternatives[k]
                     g == e + Len(a) + 1
                 IN  /\ e > c + 8
                     /\ MatchAtCI(input, e, a)
                     /\ g <= Len(input)
                     /\ input[g - 1] = " "
                     /\ input[g] # "."}
    IN  IF ok = {} THEN 0
        ELSE e + Len(pleaseRememberAlternatives[CHOOSE k \in ok : \A j \in ok : k <= j]) + 1

\* /(?:please\s+)?remember\s+(my|that my|that) ([^\.]+)/i : group 2
pleaseRememberMatch(input) ==
  LET hits == {c \in 1..Len(input) : pleaseRememberAt(input, c) > 0}
  IN  IF hits = {} THEN [matched |-> FALSE, g |-> <<>>]
      ELSE LET c == CHOOSE k \in hits : \A j \in hits : k <= j
               g == pleaseRememberAt(input, c)
           IN  [matched |-> TRUE,
                g |-> SubSeq(input, g, NonDotRunEnd(input, g) - 1)]

\* /make a note (?:that|about) (.*)/i : group 1
noteMatch(input) ==
  LET that == <<"m", "a", "k", "e", " ", "a", " ", "n", "o", "t", "e", " ", "t", "h", "a", "t", " ">>
      about == <<"m", "a", "k", "e", " ", "a", " ", "n", "o", "t", "e", " ", "a", "b", "o", "u", "t", " ">>
      hits == {i \in 1..Len(input) :
                 MatchAtCI(input, i, that) \/ MatchAtCI(input, i, about)}
  IN  IF hits = {} THEN [matched |-> FALSE, g |-> <<>>]
      ELSE LET i == CHOOSE k \in hits : \A j \in hits : k <= j
               n == IF MatchAtCI(input, i, that) THEN Len(that) ELSE Len(about)
           IN  [matched |-> TRUE, g |-> RestOfLine(input, i + n)]

\* /(.*) is (.*)/i, with a greedy first group: the split at the last " is "
aboutMatchGreedy(x) ==
  LET hits == {i \in 1..Len(x) : MatchAtCI(x, i, <<" ", "i", "s", " ">>)}
  IN  IF hits = {} THEN [matched |-> FALSE, g1 |-> <<>>, g2 |-> <<>>]
      ELSE LET j == CHOOSE k \in hits : \A i \in hits : i <= k
           IN  [matched |-> TRUE, g1 |-> SubSeq(x, 1, j - 1),
                g2 |-> SubSeq(x, j + 4, Len(x))]

\* /(.*?) is (.*)/i on the note text: the split at the first " is "
aboutMatch(x) ==
  LET j == IndexOfCI(x, <<" ", "i", "s", " ">>, 1)
  IN  IF j = 0 THEN [matched |-> FALSE, g1 |-> <<>>, g2 |-> <<>>]
      ELSE [matched |-> TRUE, g1 |-> SubSeq(x, 1, j - 1),
            g2 |-> SubSeq(x, j + 4, Len(x))]

\* a detector that tries the note pattern before the two remember patterns
detectMemoryCommandNoteFirst(input) ==
  LET r == rememberMatch(input)
      p == pleaseRememberMatch(input)
      n == noteMatch(input)
      a == aboutMatch(n.g)
  IN  IF n.matched /\ n.g # <<>> THEN
        IF a.matched THEN Command("note", TRUE, trim(a.g1), trim(a.g2))
        ELSE Command("note", FALSE, <<>>, trim(n.g))
      ELSE IF r.matched /\ r.g # <<>> THEN Command("remember", FALSE, <<>>, trim(r.g))
      ELSE IF p.matched /\ p.g # <<>> THEN Command("remember", FALSE, <<>>, trim(p.g))
      ELSE NoCommand

detectMemoryCommand(input) ==
  LET r == rememberMatch(input)
      p == pleaseRememberMatch(input)
      n == noteMatch(input)
      a == aboutMatch(n.g)
  IN  IF r.matched /\ r.g # <<>> THEN Command("remember", FALSE, <<>>, trim(r.g))
      ELSE IF p.matched /\ p.g # <<>> THEN Command("remember", FALSE, <<>>, trim(p.g))
      ELSE IF n.matched /\ n.g # <<>> THEN
        IF a.matched THEN Command("note", TRUE, trim(a.g1), trim(a.g2))
        ELSE Command("note", FALSE, <<>>, trim(n.g))
      ELSE NoCommand

\* ---------------------------------------------------------------------
\* InMemoryDatabase: the store is the Map's entries in insertion order
\* ---------------------------------------------------------------------
\* the values Math.random() can make generateId return
Ids == {"id1", "id2"}

MemoryItem(id, description, content, createdAt, updatedAt) ==
  [id |-> id, description |-> description, content |-> content,
   createdAt |-> createdAt, updatedAt |-> updatedAt]

\* position of the entry with this key, 0 if the Map has none
IndexOfId(its, id) ==
  IF \E j \in 1..Len(its) : its[j].id = id
    THEN CHOOSE j \in 1..Len(its) : its[j].id = id
    ELSE 0

\* Map.set: a new key is appended, an existing key keeps its position
MapSet(its, item) ==
  LET j == IndexOfId(its, item.id)
  IN  IF j = 0 THEN Append(its, item) ELSE [its EXCEPT ![j] = item]

\* Map.delete
MapDelete(its, id) ==
  LET j == IndexOfId(its, id)
  IN  IF j = 0 THEN its ELSE SubSeq(its, 1, j - 1) \o SubSeq(its, j + 1, Len(its))

\* InMemoryDatabase.create, with id the value generateId returned
dbCreate(its, id, t, description, content) ==
  LET item == MemoryItem(id, description, content, t, t)
  IN  [items |-> MapSet(its, item), item |-> item]

NullItem == MemoryItem("", <<>>, <<>>, 0, 0)

\* InMemoryDatabase.get
dbGet(its, id) ==
  LET j == IndexOfId(its, id)
  IN  IF j = 0 THEN [found |-> FALSE, item |-> NullItem]
      ELSE [found |-> TRUE, item |-> its[j]]

\* the data argument of update: a field that is undefined is not given
UpdateData(hasDescription, description, hasContent, content) ==
  [hasDescription |-> hasDescription, description |-> description,
   hasContent |-> hasContent, content |-> content]

\* an update that creates the record when the id is not in the Map
dbUpdateOrCreate(its, id, data, t) ==
  LET j == IndexOfId(its, id)
      updatedItem ==
        IF j = 0 THEN MemoryItem(id, data.description, data.content, t, t)
        ELSE MemoryItem(its[j].id,
                        IF data.hasDescription THEN data.description
                                               ELSE its[j].description,
                        IF data.hasContent THEN data.content ELSE its[j].content,
                        its[j].createdAt, t)
  IN  [items |-> MapSet(its, updatedItem), found |-> TRUE, item |-> updatedItem]

\* an update that writes both fields of data, given or not
dbUpdateBothFields(its, id, data, t) ==
  LET j == IndexOfId(its, id)
  IN  IF j = 0 THEN [items |-> its, found |-> FALSE, item |-> NullItem]
      ELSE LET updatedItem ==
                 MemoryItem(its[j].id, data.description, data.content,
                            its[j].createdAt, t)
           IN  [items |-> MapSet(its, updatedItem), found |-> TRUE,
                item |-> updatedItem]

\* InMemoryDatabase.update
dbUpdate(its, id, data, t) ==
  LET j == IndexOfId(its, id)
  IN  IF j = 0 THEN [items |-> its, found |-> FALSE, item |-> NullItem]
      ELSE LET updatedItem ==
                 MemoryItem(its[j].id,
                            IF data.hasDescription THEN data.description
                                                   ELSE its[j].description,
                            IF data.hasContent THEN data.content ELSE its[j].content,
                            its[j].createdAt, t)
           IN  [items |-> MapSet(its, updatedItem), found |-> TRUE,
                item |-> updatedItem]

\* a delete that reports the record and leaves it in the Map
dbDeleteReportsOnly(its, id) ==
  [items |-> its, deleted |-> IndexOfId(its, id) # 0]

\* InMemoryDatabase.delete
dbDelete(its, id) ==
  [items |-> MapDelete(its, id), deleted |-> IndexOfId(its, id) # 0]

ItemMatches(item, lowerQuery) ==
  \/ includes(toLowerCase(item.description), lowerQuery)
  \/ includes(toLowerCase(item.content), lowerQuery)

\* InMemoryDatabase.search
dbSearch(its, query) ==
  LET lowerQuery == toLowerCase(query)
      hit(item) == ItemMatches(item, lowerQuery)
  IN  SelectSeq(its, hit)

\* ---------------------------------------------------------------------
\* MemoryService (services/memory.service.ts)
\* ---------------------------------------------------------------------
MAX_QUERY_LENGTH == 500

\* replace(/\s+/g, ' ')
RECURSIVE NormalizeSpaces(_)
NormalizeSpaces(s) ==
  LET sp == {i \in 1..Len(s) : IsSpace(s[i])}
  IN  IF sp = {} THEN s
      ELSE LET i == CHOOSE k \in sp : \A j \in sp : k <= j
               e == SpaceRunEnd(s, i)
           IN  SubSeq(s, 1, i - 1) \o <<" ">> \o NormalizeSpaces(SubSeq(s, e, Len(s)))

\* MemoryService.validateQuery, for a query that is a string
validateQuery(query) ==
  LET trimmed == trim(query)
      cut == IF Len(trimmed) > MAX_QUERY_LENGTH
               THEN substring(trimmed, 0, MAX_QUERY_LENGTH) ELSE trimmed
  IN  NormalizeSpaces(cut)

\* MemoryService.storeMemory
storeMemory(its, id, t, description, content) ==
  dbCreate(its, id, t, description, content)

\* MemoryService.getMemory
getMemory(its, id) == dbGet(its, id)

\* MemoryService.getAllMemories
getAllMemories(its) == its

\* MemoryService.updateMemory
updateMemory(its, id, data, t) == dbUpdate(its, id, data, t)

\* MemoryService.deleteMemory
deleteMemory(its, id) == dbDelete(its, id)

\* MemoryService.searchMemories
searchMemories(its, query) == dbSearch(its, validateQuery(query))

\* ---------------------------------------------------------------------
\* MemoryService, the revision that validates its arguments
\* (src/unnamed/part_006)
\* ---------------------------------------------------------------------
MAX_DESCRIPTION_LENGTH == 1000

MEMORY_MAX_CONTENT_LENGTH == 50000

\* MemoryService.validateInput, for an input that is a string: it throws or
\* returns the trimmed input
validateInput(input, maxLength) ==
  IF Len(input) > maxLength THEN [threw |-> TRUE, value |-> <<>>]
  ELSE LET sanitized == trim(input)
       IN  IF Len(sanitized) = 0 THEN [threw |-> TRUE, value |-> <<>>]
           ELSE [threw |-> FALSE, value |-> sanitized]

\* MemoryService.storeMemory of that revision
storeMemoryValidated(its, id, t, description, content) ==
  LET validatedDescription == validateInput(description, MAX_DESCRIPTION_LENGTH)
      validatedContent == validateInput(content, MEMORY_MAX_CONTENT_LENGTH)
  IN  IF validatedDescription.threw \/ validatedContent.threw
        THEN [threw |-> TRUE, items |-> its, item |-> NullItem]
        ELSE LET c == dbCreate(its, id, t, validatedDescription.value,
                               validatedContent.value)
             IN  [threw |-> FALSE, items |-> c.items, item |-> c.item]

\* MemoryService.updateMemory of that revision
updateMemoryValidated(its, id, data, t) ==
  LET description == validateInput(data.description, MAX_DESCRIPTION_LENGTH)
      content == validateInput(data.content, MEMORY_MAX_CONTENT_LENGTH)
  IN  IF \/ data.hasDescription /\ description.threw
         \/ data.hasContent /\ content.threw
        THEN [threw |-> TRUE, items |-> its, found |-> FALSE, item |-> NullItem]
        ELSE LET validatedData ==
                   UpdateData(data.hasDescription, description.value,
                              data.hasContent, content.value)
                 u == dbUpdate(its, id, validatedData, t)
             IN  [threw |-> FALSE, items |-> u.items, found |-> u.found,
                  item |-> u.item]

\* MemoryService.searchMemories of that revision
searchMemoriesValidated(its, query) ==
  LET validatedQuery == validateInput(query, MAX_DESCRIPTION_LENGTH)
  IN  IF validatedQuery.threw THEN [threw |-> TRUE, result |-> <<>>]
      ELSE [threw |-> FALSE, result |-> dbSearch(its, validatedQuery.value)]

\* ---------------------------------------------------------------------
\* MemoryService, the revision with getRelevantMemories
\* (src/unnamed/part_005); its other methods pass their arguments to the
\* store as they are
\* ---------------------------------------------------------------------
commonWords ==
  { <<"a">>, <<"a", "n">>, <<"t", "h", "e">>, <<"a", "n", "d">>, <<"o", "r">>, <<"b", "u", "t">>, <<"i", "s">>, <<"a", "r", "e">>,
    <<"w", "a", "s">>, <<"w", "e", "r", "e">>, <<"b", "e">>, <<"b", "e", "e", "n">>, <<"b", "e", "i", "n", "g">>, <<"h", "a", "v", "e">>, <<"h", "a", "s">>,
    <<"h", "a", "d">>, <<"d", "o">>, <<"d", "o", "e", "s">>, <<"d", "i", "d">>, <<"w", "i", "l", "l">>, <<"w", "o", "u", "l", "d">>, <<"s", "h", "a", "l", "l">>,
    <<"s", "h", "o", "u", "l", "d">>, <<"c", "a", "n">>, <<"c", "o", "u", "l", "d">>, <<"m", "a", "y">>, <<"m", "i", "g", "h", "t">>, <<"m", "u", "s", "t">>, <<"t", "o">>,
    <<"o", "f">>, <<"i", "n">>, <<"o", "n">>, <<"a", "t">>, <<"b", "y">>, <<"f", "o", "r">>, <<"w", "i", "t", "h">>, <<"a", "b", "o", "u", "t">>,
    <<"a", "g", "a", "i", "n", "s", "t">>, <<"b", "e", "t", "w", "e", "e", "n">>, <<"i", "n", "t", "o">>, <<"t", "h", "r", "o", "u", "g", "h">>, <<"d", "u", "r", "i", "n", "g">>, <<"b", "e", "f", "o", "r", "e">>,
    <<"a", "f", "t", "e", "r">>, <<"a", "b", "o", "v", "e">>, <<"b", "e", "l", "o", "w">>, <<"f", "r", "o", "m">>, <<"u", "p">>, <<"d", "o", "w", "n">>, <<"o", "u", "t">>,
    <<"o", "f", "f">>, <<"o", "v", "e", "r">>, <<"u", "n", "d", "e", "r">>, <<"a", "g", "a", "i", "n">>, <<"f", "u", "r", "t", "h", "e", "r">>, <<"t", "h", "e", "n">>, <<"o", "n", "c", "e">>,
    <<"h", "e", "r", "e">>, <<"t", "h", "e", "r", "e">>, <<"w", "h", "e", "n">>, <<"w", "h", "e", "r", "e">>, <<"w", "h", "y">>, <<"h", "o", "w">>, <<"a", "l", "l">>,
    <<"a", "n", "y">>, <<"b", "o", "t", "h">>, <<"e", "a", "c", "h">>, <<"f", "e", "w">>, <<"m", "o", "r", "e">>, <<"m", "o", "s", "t">>, <<"o", "t", "h", "e", "r">>,
    <<"s", "o", "m", "e">>, <<"s", "u", "c", "h">>, <<"n", "o">>, <<"n", "o", "r">>, <<"n", "o", "t">>, <<"o", "n", "l", "y">>, <<"o", "w", "n">>,
    <<"s", "a", "m", "e">>, <<"s", "o">>, <<"t", "h", "a", "n">>, <<"t", "o", "o">>, <<"v", "e", "r", "y">>, <<"y", "o", "u">>, <<"y", "o", "u", "r">>,
    <<"y", "o", "u", "r", "s">>, <<"y", "o", "u", "r", "s", "e", "l", "f">>, <<"y", "o", "u", "r", "s", "e", "l", "v", "e", "s">>, <<"i">>, <<"m", "e">>, <<"m", "y">>,
    <<"m", "y", "s", "e", "l", "f">>, <<"w", "e">>, <<"o", "u", "r">>, <<"o", "u", "r", "s">>, <<"o", "u", "r", "s", "e", "l", "v", "e", "s">>, <<"w", "h", "a", "t">>,
    <<"w", "h", "i", "c", "h">>, <<"w", "h", "o">>, <<"w", "h", "o", "m">>, <<"t", "h", "i", "s">>, <<"t", "h", "a", "t">>, <<"t", "h", "e", "s", "e">>, <<"t", "h", "o", "s", "e">>,
    <<"a", "m">>, <<"i", "t">>, <<"i", "t", "s">>, <<"i", "t", "s", "e", "l", "f">>, <<"t", "h", "e", "y">>, <<"t", "h", "e", "m">>, <<"t", "h", "e", "i", "r">>,
    <<"t", "h", "e", "i", "r", "s">>, <<"t", "h", "e", "m", "s", "e", "l", "v", "e", "s">> }

MAX_KEYWORDS == 10

KeepKeyword(word) == Len(word) > 1 /\ word \notin commonWords

KeptChar(c) == IsWordChar(c) \/ IsSpace(c)

\* MemoryService.extractKeywords of that revision: a word that occurs twice
\* in the input occurs twice in the result
extractKeywordsUpTo10(input) ==
  LET text == SelectSeq(toLowerCase(input), KeptChar)
      words == SelectSeq(SplitSpaces(text), KeepKeyword)
  IN  SubSeq(words, 1, IF Len(words) < MAX_KEYWORDS THEN Len(words)
                                                     ELSE MAX_KEYWORDS)

\* the score getRelevantMemories gives a record: one for every element of
\* keywords that its text includes
memoryScore(memory, keywords) ==
  LET memoryText == toLowerCase(memory.description \o <<" ">> \o memory.content)
  IN  Cardinality({i \in 1..Len(keywords) :
                     includes(memoryText, toLowerCase(keywords[i]))})

\* filter(score > 0).sort((a, b) => b.score - a.score): the sort is stable,
\* so the records of score s follow those of a higher score in their order
RECURSIVE sortedByScore(_, _, _)
sortedByScore(memories, keywords, s) ==
  IF s = 0 THEN <<>>
  ELSE LET scores(memory) == memoryScore(memory, keywords) = s
       IN  SelectSeq(memories, scores) \o sortedByScore(memories, keywords, s - 1)

\* MemoryService.getRelevantMemories
getRelevantMemories(its, input) ==
  LET keywords == extractKeywordsUpTo10(input)
  IN  IF Len(keywords) = 0 THEN <<>>
      ELSE sortedByScore(its, keywords, Len(keywords))

\* ---------------------------------------------------------------------
\* AgentService: the memory-command path
\* ---------------------------------------------------------------------
\* the element of a set of one element: Only({e(x) : x \in {v}}) is e with x
\* bound to the value of v
Only(S) == CHOOSE x \in S : TRUE

\* the description processMemoryCommand gives a command before it sanitizes it
describe(command, content) ==
  IF command.description # <<>> THEN command.description
  ELSE IF command.type = "remember"
    THEN Only({ <<"U", "s", "e", "r", " ", "i", "n", "f", "o", "r", "m", "a", "t", "i", "o", "n", " ", "a", "b", "o", "u", "t", " ">> \o
                  (IF Len(keyTerms) > 0 THEN keyTerms[1] ELSE <<"u", "s", "e", "r", " ", "i", "n", "f", "o", "r", "m", "a", "t", "i", "o", "n">>)
                : keyTerms \in {extractKeywords(content)} })
    ELSE <<"U", "s", "e", "r", " ", "n", "o", "t", "e">>

\* processMemoryCommand up to its call of storeMemory: the command as the
\* method leaves it, and whether it threw
processMemoryCommand(command) ==
  IF command.content = <<>>
    THEN [threw |-> TRUE, description |-> command.description,
          content |-> command.content]
    ELSE Only({ [threw |-> ~isAppropriateMemoryContent(content),
                 description |-> sanitizeContent(describe(command, content)),
                 content |-> content]
                : content \in {sanitizeContent(command.content)} })

\* the acknowledgment both generate methods return for a command
AckOutput(type, description, content) ==
  <<"I", "'", "v", "e", " ", "s", "a", "v", "e", "d", " ", "t", "h", "a", "t", " ", "i", "n", "f", "o", "r", "m", "a", "t", "i", "o", "n", " ", "f", "o", "r", " ", "y", "o", "u", ".", " ">> \o
  (IF type = "remember"
     THEN <<"I", "'", "l", "l", " ", "r", "e", "m", "e", "m", "b", "e", "r", " ", "t", "h", "a", "t", " ", "\"">> \o content \o <<"\"", ".">>
     ELSE <<"I", "'", "v", "e", " ", "m", "a", "d", "e", " ", "a", " ", "n", "o", "t", "e", " ", "a", "b", "o", "u", "t", " ", "\"">> \o description \o <<"\"", ".">>)

Response(output, requestId) == [output |-> output, requestId |-> requestId]

NoResponse == Response(<<>>, "none")


\* ---------------------------------------------------------------------
\* The inputs of the model
\* ---------------------------------------------------------------------
\* what the provider's functionCall can answer to considerUpdatingMemory:
\* no tool call, or a first tool call with a function name and an
\* arguments text that is empty, not JSON, the JSON null, or a JSON object
FunctionCallResponse(toolCalls, name, args, should_update, isArray, memory_items) ==
  [toolCalls |-> toolCalls, name |-> name, args |-> args,
   should_update |-> should_update, isArray |-> isArray,
   memory_items |-> memory_items]

\* what the provider's functionCall can answer to processMemoryToolCall:
\* no tool call, or a first tool call with a function name and an
\* arguments text that is not JSON, the JSON null, or a JSON object whose
\* absent fields are empty here
ToolCallResponse(toolCalls, name, args, id, description, content, query) ==
  [toolCalls |-> toolCalls, name |-> name, args |-> args, id |-> id,
   description |-> description, content |-> content, query |-> query]

\* what a user sends
InRemember == <<"R", "e", "m", "e", "m", "b", "e", "r", " ", "t", "h", "a", "t", " ", "s", "k", "y", " ", "i", "s", " ", "b", "l", "u", "e">>
InMeaningless == <<"r", "e", "m", "e", "m", "b", "e", "r", " ", "t", "h", "a", "t", " ", "o", "k">>
InNote == <<"m", "a", "k", "e", " ", "a", " ", "n", "o", "t", "e", " ", "t", "h", "a", "t", " ", "<", "b", ">", " ", "i", "s", " ", "b", "l", "u", "e">>
InQuestion == <<"w", "h", "a", "t", " ", "c", "o", "l", "o", "r", " ", "i", "s", " ", "t", "h", "e", " ", "s", "k", "y">>
UserInputs == {InRemember, InMeaningless, InNote, InQuestion, <<>>}

\* a word of one character more than a search query keeps, the command to
\* remember its first characters and a question with the word
LongWord == [i \in 1..(MAX_QUERY_LENGTH + 1) |-> "a"]
InRememberLong == <<"r", "e", "m", "e", "m", "b", "e", "r", " ", "t", "h", "a", "t", " ">> \o SubSeq(LongWord, 1, MAX_QUERY_LENGTH)
InLongQuestion == <<"s", "k", "y", " ", "c", "o", "l", "o", "r", " ">> \o LongWord
LongInputs == {InRememberLong, InLongQuestion}
AllInputs == UserInputs \cup LongInputs

\* what the provider's generateResponse returns as output
ProviderOutputs == { <<"I", "t", " ", "i", "s", " ", "b", "l", "u", "e">>, <<>> }

\* the events of a stream the provider's streamResponse returns
Chunk(type, delta) == [type |-> type, delta |-> delta]

Streams ==
  { <<Chunk(<<"r", "e", "s", "p", "o", "n", "s", "e", ".", "o", "u", "t", "p", "u", "t", "_", "t", "e", "x", "t", ".", "d", "e", "l", "t", "a">>, <<"I", "t", " ">>),
      Chunk(<<"r", "e", "s", "p", "o", "n", "s", "e", ".", "o", "u", "t", "p", "u", "t", "_", "t", "e", "x", "t", ".", "d", "e", "l", "t", "a">>, <<"i", "s", " ", "b", "l", "u", "e">>),
      Chunk(<<"r", "e", "s", "p", "o", "n", "s", "e", ".", "o", "u", "t", "p", "u", "t", "_", "t", "e", "x", "t", ".", "d", "o", "n", "e">>, <<>>),
      Chunk(<<"r", "e", "s", "p", "o", "n", "s", "e", ".", "c", "o", "m", "p", "l", "e", "t", "e", "d">>, <<>>)>>,
    <<Chunk(<<"r", "e", "s", "p", "o", "n", "s", "e", ".", "o", "u", "t", "p", "u", "t", "_", "t", "e", "x", "t", ".", "d", "e", "l", "t", "a">>, <<"I", "t", " ", "i", "s", " ", "b", "l", "u", "e">>),
      Chunk(<<"r", "e", "s", "p", "o", "n", "s", "e", ".", "o", "u", "t", "p", "u", "t", "_", "t", "e", "x", "t", ".", "d", "o", "n", "e">>, <<>>),
      Chunk(<<"r", "e", "s", "p", "o", "n", "s", "e", ".", "c", "o", "n", "t", "e", "n", "t", "_", "p", "a", "r", "t", ".", "d", "o", "n", "e">>, <<>>)>>,
    <<Chunk(<<"r", "e", "s", "p", "o", "n", "s", "e", ".", "o", "u", "t", "p", "u", "t", "_", "t", "e", "x", "t", ".", "d", "e", "l", "t", "a">>, <<"I", "t", " ">>),
      Chunk(<<"r", "e", "s", "p", "o", "n", "s", "e", ".", "o", "u", "t", "p", "u", "t", "_", "t", "e", "x", "t", ".", "d", "o", "n", "e">>, <<>>),
      Chunk(<<"r", "e", "s", "p", "o", "n", "s", "e", ".", "o", "u", "t", "p", "u", "t", "_", "t", "e", "x", "t", ".", "d", "e", "l", "t", "a">>, <<"i", "s", " ", "b", "l", "u", "e">>)>>,
    <<Chunk(<<"r", "e", "s", "p", "o", "n", "s", "e", ".", "c", "o", "m", "p", "l", "e", "t", "e", "d">>, <<>>)>> }

\* what the provider's functionCall returns to considerUpdatingMemory
MemoryItemArg(action, id, description, content) ==
  [action |-> action, id |-> id, description |-> description, content |-> content]

ItemLists ==
  { <<MemoryItemArg("create", "", <<"<", "b", ">">>, <<"s", "k", "y", " ", "c", "o", "l", "o", "r">>)>>,
    <<MemoryItemArg("create", "", <<"p", "e", "t">>, <<>>),
      MemoryItemArg("update", "id1", <<"p", "e", "t">>, <<"c", "a", "t">>)>>,
    <<MemoryItemArg("create", "", <<"p", "e", "t">>, <<"o", "k">>)>>,
    <<MemoryItemArg("create", "", <<"p", "e", "t">>, <<"c", "a", "t">>),
      MemoryItemArg("update", "id1", <<"p", "e", "t">>, <<"d", "o", "g">>)>> }

\* a list whose second item the validating store rejects: its description
\* is empty once sanitizeContent has removed the tag
RejectedItemList ==
  <<MemoryItemArg("create", "", <<"p", "e", "t">>, <<"c", "a", "t">>),
    MemoryItemArg("create", "", <<"<", "b", ">">>, <<"s", "k", "y", " ", "c", "o", "l", "o", "r">>)>>

FunctionCallResponses ==
  { FunctionCallResponse(FALSE, "", "object", FALSE, FALSE, <<>>),
    FunctionCallResponse(TRUE, "other", "object", TRUE, FALSE, <<>>),
    FunctionCallResponse(TRUE, "update_agent_memory", "empty", FALSE, FALSE, <<>>),
    FunctionCallResponse(TRUE, "update_agent_memory", "malformed", FALSE, FALSE, <<>>),
    FunctionCallResponse(TRUE, "update_agent_memory", "null", FALSE, FALSE, <<>>),
    FunctionCallResponse(TRUE, "update_agent_memory", "object", FALSE, FALSE, <<>>),
    FunctionCallResponse(TRUE, "update_agent_memory", "object", TRUE, FALSE, <<>>) }
  \cup { FunctionCallResponse(TRUE, "update_agent_memory", "object", TRUE, TRUE, l) :
           l \in ItemLists }

\* what the provider's functionCall returns to processMemoryToolCall
ToolCallResponses ==
  { ToolCallResponse(FALSE, "", "object", "", <<>>, <<>>, <<>>),
    ToolCallResponse(TRUE, "", "object", "", <<>>, <<>>, <<>>),
    ToolCallResponse(TRUE, "create_memory", "malformed", "", <<>>, <<>>, <<>>),
    ToolCallResponse(TRUE, "create_memory", "null", "", <<>>, <<>>, <<>>),
    ToolCallResponse(TRUE, "create_memory", "object", "", <<"p", "e", "t">>, <<"c", "a", "t">>, <<>>),
    ToolCallResponse(TRUE, "get_memory", "object", "id1", <<>>, <<>>, <<>>),
    ToolCallResponse(TRUE, "update_memory", "object", "id1", <<"<", "b", ">">>, <<>>, <<>>),
    ToolCallResponse(TRUE, "delete_memory", "object", "id1", <<>>, <<>>, <<>>),
    ToolCallResponse(TRUE, "search_memories", "object", "", <<>>, <<>>, <<"S", "K", "Y">>),
    ToolCallResponse(TRUE, "list_all_memories", "object", "", <<>>, <<>>, <<>>),
    ToolCallResponse(TRUE, "forget_memory", "object", "", <<>>, <<>>, <<>>) }

\* what the provider answers to two requests that write the record id1
ConcurrentToolCalls ==
  { ToolCallResponse(TRUE, "create_memory", "object", "", <<"p", "e", "t">>, <<"c", "a", "t">>, <<>>),
    ToolCallResponse(TRUE, "update_memory", "object", "id1", <<"s", "k", "y">>, <<>>, <<>>),
    ToolCallResponse(TRUE, "update_memory", "object", "id1", <<>>, <<"d", "o", "g">>, <<>>),
    ToolCallResponse(TRUE, "delete_memory", "object", "id1", <<>>, <<>>, <<>>) }

ConcurrentFunctionCall ==
  FunctionCallResponse(TRUE, "update_agent_memory", "object", TRUE, TRUE,
    <<MemoryItemArg("create", "", <<"p", "e", "t">>, <<>>),
      MemoryItemArg("update", "id1", <<"p", "e", "t">>, <<"c", "a", "t">>)>>)

\* the arguments of the direct calls of the MemoryService
Descriptions == { <<>>, <<"p", "e", "t">> }
PaddedDescriptions == Descriptions \cup { <<" ", "p", "e", "t">> }
Contents == { <<>>, <<"c", "a", "t">> }
Queries == { <<" ", " ">>, <<"C", "A", "T">> }
\* the inputs of the detector: a trigger phrase in one of its spellings, a
\* text before it, the text it captures and a further line
RememberTriggers == { <<"r", "e", "m", "e", "m", "b", "e", "r", " ", "t", "h", "a", "t", " ">>, <<"R", "e", "m", "e", "m", "b", "e", "r", " ", "T", "h", "a", "t", " ">>, <<"R", "E", "M", "E", "M", "B", "E", "R", " ", "T", "H", "A", "T", " ">> }
NoteTriggers == { <<"m", "a", "k", "e", " ", "a", " ", "n", "o", "t", "e", " ", "t", "h", "a", "t", " ">>, <<"M", "a", "k", "e", " ", "a", " ", "n", "o", "t", "e", " ", "t", "h", "a", "t", " ">>, <<"M", "A", "K", "E", " ", "A", " ", "N", "O", "T", "E", " ", "A", "B", "O", "U", "T", " ">> }
Prefixes == { <<>>, <<"P", "l", "e", "a", "s", "e", " ">> }
RememberPrefixes ==
  Prefixes \cup { <<"m", "a", "k", "e", " ", "a", " ", "n", "o", "t", "e", " ", "t", "h", "a", "t", " ", "a", " ", "i", "s", " ", "b", " ", "a", "n", "d", " ">>, <<"p", "l", "e", "a", "s", "e", " ", "r", "e", "m", "e", "m", "b", "e", "r", " ", "m", "y", " ", "k", "e", "y", ".", " ">> }
Suffixes == { <<>>, <<"\n", "m", "a", "k", "e", " ", "a", " ", "n", "o", "t", "e", " ", "a", "b", "o", "u", "t", " ", "z">> }
RememberTexts == { <<"x">>, <<"s", "k", "y", " ", "i", "s", " ", "b", "l", "u", "e">>, <<" ", " ", "m", "y", " ", "c", "a", "t", " ", " ">>, <<"a", ".", "b">> }
NoteSubjects == { <<"m", "y", " ", "n", "e", "x", "t", " ", "a", "p", "p", "o", "i", "n", "t", "m", "e", "n", "t">>, <<"S", "k", "y">> }
NoteFacts == { <<"o", "n", " ", "F", "r", "i", "d", "a", "y", " ", "a", "t", " ", "2", "p", "m">>, <<"b", "l", "u", "e", " ", "I", "S", " ", "n", "i", "c", "e", " ">> }
NoteTexts == { <<"b", "u", "y", " ", "m", "i", "l", "k", ".", " ">>, <<"i", "s", "l", "a", "n", "d", " ", "v", "i", "s", "i", "t">>, <<"t", "h", "e", " ", "s", "k", "y", " ", "i", "s">> }
RememberInputs ==
  { p \o t \o x \o s :
      p \in RememberPrefixes, t \in RememberTriggers, x \in RememberTexts,
      s \in Suffixes }
NoteInputs ==
  { p \o t \o x \o s :
      p \in Prefixes, t \in NoteTriggers,
      x \in NoteTexts \cup { y \o <<" ", "i", "s", " ">> \o z : y \in NoteSubjects, z \in NoteFacts },
      s \in Suffixes }
DetectorInputs == RememberInputs \cup NoteInputs \cup UserInputs

\* the inputs of the keyword extractors: two words and what separates them
KeywordInputs ==
  { <<>> } \cup
  { w \o sep \o v :
      w \in { <<"C", "a", "t">>, <<"t", "h", "e">>, <<"i", "t", "'", "s">>, <<"a", "b">>, <<"s", "k", "y", "-", "b", "l", "u", "e">> },
      sep \in { <<" ">>, <<",", " ">>, <<" ", " ", "c", "a", "t", "_", "1", " ">> },
      v \in { <<"c", "a", "t">>, <<"T", "H", "E">>, <<"p", "e", "t", "s", "!">>, <<"a", "b">>, <<"S", "k", "y">> } }

RelevantInputs == { <<>>, <<"t", "h", "e">>, <<"P", "e", "t", " ", "c", "a", "t">>, <<"c", "a", "t", " ", "c", "a", "t", " ", "p", "e", "t">> }
UpdateDatas ==
  { UpdateData(FALSE, <<>>, TRUE, <<"d", "o", "g">>), UpdateData(TRUE, <<>>, FALSE, <<>>) }


\* ---------------------------------------------------------------------
\* The string functions tabulated over the texts of the model (a table is
\* evaluated once)
\* ---------------------------------------------------------------------
Detected == [input \in AllInputs |-> detectMemoryCommand(input)]

Keywords == [input \in AllInputs |-> extractKeywords(input)]

Texts ==
  ProviderOutputs
  \cup UNION {{d.description, d.content} : d \in {Detected[input] : input \in AllInputs}}
  \cup UNION {Range(Keywords[input]) : input \in AllInputs}
  \cup UNION {UNION {{l[k].description, l[k].content} : k \in 1..Len(l)} : l \in ItemLists}
  \cup UNION {{tc.description, tc.content, tc.query} : tc \in ToolCallResponses}

Sanitized == [text \in Texts |-> sanitizeContent(text)]

\* a command with its texts sanitized, as two callers do before processing
Presanitized(command) ==
  [command EXCEPT !.content = Sanitized[@], !.description = Sanitized[@]]

Commands ==
  UNION {{d, Presanitized(d)} : d \in {Detected[input] : input \in AllInputs}}

Processed == [command \in Commands |-> processMemoryCommand(command)]

\* ---------------------------------------------------------------------
\* AgentService.considerUpdatingMemory
\* ---------------------------------------------------------------------
MemResult(updated, error, reasoning, updates) ==
  [called |-> TRUE, updated |-> updated, error |-> error,
   reasoning |-> reasoning, updates |-> updates]

NoMem ==
  [called |-> FALSE, updated |-> FALSE, error |-> "", reasoning |-> "",
   updates |-> <<>>]

UpdateEntry(action, found, item) ==
  [action |-> action, found |-> found, item |-> item]

\* a catch block that returns without the error
considerCatchSilent == MemResult(FALSE, "", "", <<>>)

\* the catch block of considerUpdatingMemory: the error is logged and the
\* method returns
considerCatch == MemResult(FALSE, "Error", "", <<>>)

\* AgentService.isValidMemoryItem
isValidMemoryItem(item) ==
  /\ item.action \in {"create", "update"}
  /\ item.description # <<>>
  /\ item.content # <<>>
  /\ item.action = "update" => item.id # ""

\* one turn of the loop over args.memory_items; id is the id generateId
\* returns if the item is created
applyMemoryItem(its, item, id, t) ==
  IF ~isValidMemoryItem(item) THEN [items |-> its, updates |-> <<>>]
  ELSE
    Only({ IF ~isAppropriateMemoryContent(content)
             THEN [items |-> its, updates |-> <<>>]
           ELSE IF item.action = "create"
             THEN Only({ [items |-> s.items,
                          updates |-> <<UpdateEntry("created", TRUE, s.item)>>]
                         : s \in {storeMemory(its, id, t, description, content)} })
           ELSE Only({ [items |-> u.items,
                        updates |-> <<UpdateEntry("updated", u.found, u.item)>>]
                       : u \in {updateMemory(its, item.id,
                                  UpdateData(TRUE, description, TRUE, content), t)} })
           : description \in {Sanitized[item.description]},
             content \in {Sanitized[item.content]} })

\* a loop that ends at the first item it does not handle
RECURSIVE applyMemoryItemsUntilSkipped(_, _, _, _, _)
applyMemoryItemsUntilSkipped(its, list, idOf, t, k) ==
  IF k > Len(list) THEN [items |-> its, updates |-> <<>>]
  ELSE
    Only({ IF step.updates = <<>> THEN [items |-> its, updates |-> <<>>]
           ELSE Only({ [items |-> rest.items, updates |-> step.updates \o rest.updates]
                       : rest \in {applyMemoryItemsUntilSkipped(step.items, list, idOf, t, k + 1)} })
           : step \in {applyMemoryItem(its, list[k], idOf[k], t)} })

\* the loop over args.memory_items, from item k on
RECURSIVE applyMemoryItems(_, _, _, _, _)
applyMemoryItems(its, list, idOf, t, k) ==
  IF k > Len(list) THEN [items |-> its, updates |-> <<>>]
  ELSE
    Only({ Only({ [items |-> rest.items, updates |-> step.updates \o rest.updates]
                  : rest \in {applyMemoryItems(step.items, list, idOf, t, k + 1)} })
           : step \in {applyMemoryItem(its, list[k], idOf[k], t)} })

\* the part of considerUpdatingMemory after the provider answered
considerFinish(fc, its, idOf, t) ==
  IF ~fc.toolCalls
    THEN [items |-> its, mem |-> MemResult(FALSE, "", "", <<>>)]
  ELSE IF fc.name # "update_agent_memory"
    THEN [items |-> its, mem |-> MemResult(FALSE, "", "", <<>>)]
  ELSE IF fc.args = "empty"
    THEN [items |-> its, mem |-> MemResult(FALSE, "Invalid function call", "", <<>>)]
  ELSE IF fc.args = "malformed"
    THEN [items |-> its, mem |-> MemResult(FALSE, "Invalid function arguments", "", <<>>)]
  ELSE IF fc.args = "null"
    THEN [items |-> its, mem |-> considerCatch]
  ELSE IF ~fc.should_update
    THEN [items |-> its, mem |-> MemResult(FALSE, "", "model", <<>>)]
  ELSE IF ~fc.isArray
    THEN [items |-> its, mem |-> MemResult(TRUE, "", "model", <<>>)]
  ELSE Only({ [items |-> a.items, mem |-> MemResult(TRUE, "", "model", a.updates)]
              : a \in {applyMemoryItems(its, fc.memory_items, idOf, t, 1)} })

\* one turn of the loop with the MemoryService that validates: the call of
\* the store can throw
applyMemoryItemValidated(its, item, id, t) ==
  IF ~isValidMemoryItem(item) THEN [threw |-> FALSE, items |-> its, updates |-> <<>>]
  ELSE
    Only({ IF ~isAppropriateMemoryContent(content)
             THEN [threw |-> FALSE, items |-> its, updates |-> <<>>]
           ELSE IF item.action = "create"
             THEN Only({ [threw |-> s.threw, items |-> s.items,
                          updates |-> IF s.threw THEN <<>>
                                      ELSE <<UpdateEntry("created", TRUE, s.item)>>]
                         : s \in {storeMemoryValidated(its, id, t, description, content)} })
           ELSE Only({ [threw |-> u.threw, items |-> u.items,
                        updates |-> IF u.threw THEN <<>>
                                    ELSE <<UpdateEntry("updated", u.found, u.item)>>]
                       : u \in {updateMemoryValidated(its, item.id,
                                  UpdateData(TRUE, description, TRUE, content), t)} })
           : description \in {Sanitized[item.description]},
             content \in {Sanitized[item.content]} })

\* the loop with the MemoryService that validates, from item k on: an item
\* whose store call throws ends the loop
RECURSIVE applyMemoryItemsValidated(_, _, _, _, _)
applyMemoryItemsValidated(its, list, idOf, t, k) ==
  IF k > Len(list) THEN [threw |-> FALSE, items |-> its, updates |-> <<>>]
  ELSE
    Only({ IF step.threw THEN step
           ELSE Only({ [threw |-> rest.threw, items |-> rest.items,
                        updates |-> step.updates \o rest.updates]
                       : rest \in {applyMemoryItemsValidated(step.items, list, idOf, t, k + 1)} })
           : step \in {applyMemoryItemValidated(its, list[k], idOf[k], t)} })

\* the part of considerUpdatingMemory after the provider answered, with the
\* MemoryService that validates; `done` are the entries pushed before the
\* catch
considerFinishValidated(fc, its, idOf, t) ==
  IF /\ fc.toolCalls
     /\ fc.name = "update_agent_memory"
     /\ fc.args = "object"
     /\ fc.should_update
     /\ fc.isArray
    THEN Only({ [items |-> a.items, done |-> a.updates,
                 mem |-> IF a.threw THEN considerCatch
                         ELSE MemResult(TRUE, "", "model", a.updates)]
                : a \in {applyMemoryItemsValidated(its, fc.memory_items, idOf, t, 1)} })
    ELSE Only({ [items |-> f.items, done |-> <<>>, mem |-> f.mem]
                : f \in {considerFinish(fc, its, idOf, t)} })

\* ---------------------------------------------------------------------
\* AgentService.generateResponseWithMemory: retrieval
\* ---------------------------------------------------------------------
defaultInstructions == <<"Y", "o", "u", " ", "a", "r", "e", " ", "a", " ", "h", "e", "l", "p", "f", "u", "l", " ", "a", "s", "s", "i", "s", "t", "a", "n", "t">>

\* a turn of the loop that pushes every memory the search returns
searchKeywordKeepsDuplicates(its, keyword, found) ==
  Only({ IF Len(sanitizedKeyword) < 2 THEN found
         ELSE found \o searchMemories(its, sanitizedKeyword)
         : sanitizedKeyword \in {Sanitized[keyword]} })

\* one turn of the loop over the keywords: the memories found so far and
\* those the search for the keyword adds
searchKeyword(its, keyword, found) ==
  Only({ IF Len(sanitizedKeyword) < 2 THEN found
         ELSE LET fresh(m) == \A i \in 1..Len(found) : found[i].id # m.id
              IN  found \o SelectSeq(searchMemories(its, sanitizedKeyword), fresh)
         : sanitizedKeyword \in {Sanitized[keyword]} })

\* a retrieval that searches for the first keyword only
relevantMemoriesFirstKeyword(its, keywords, k, found) ==
  IF keywords = <<>> THEN found
  ELSE searchKeyword(its, keywords[1], found)

\* the loop over the keywords, from keyword k on, with the memories found
RECURSIVE relevantMemories(_, _, _, _)
relevantMemories(its, keywords, k, found) ==
  IF k > Len(keywords) THEN found
  ELSE Only({ relevantMemories(its, keywords, k + 1, next)
              : next \in {searchKeyword(its, keywords[k], found)} })

RECURSIVE memoryLines(_)
memoryLines(memories) ==
  IF memories = <<>> THEN <<>>
  ELSE <<"-", " ">> \o Head(memories).description \o <<":", " ">> \o Head(memories).content
       \o <<"\n">> \o memoryLines(Tail(memories))

memoryContext(memories) ==
  IF Len(memories) > 0
    THEN <<"H", "e", "r", "e", " ", "a", "r", "e", " ", "s", "o", "m", "e", " ", "r", "e", "l", "e", "v", "a", "n", "t", " ", "t", "h", "i", "n", "g", "s", " ", "I", " ", "r", "e", "m", "e", "m", "b", "e", "r", ":", "\n", "\n">> \o memoryLines(memories)
         \o <<"\n", "P", "l", "e", "a", "s", "e", " ", "u", "s", "e", " ", "t", "h", "i", "s", " ", "i", "n", "f", "o", "r", "m", "a", "t", "i", "o", "n", " ", "i", "f", " ", "r", "e", "l", "e", "v", "a", "n", "t", " ", "t", "o", " ", "t", "h", "e", " ", "u", "s", "e", "r", "'", "s", " ", "r", "e", "q", "u", "e", "s", "t", ".", "\n", "\n">>
    ELSE <<>>

enhancedInstructions(instructions, memories) ==
  instructions \o <<"\n", "\n">> \o memoryContext(memories)


\* ---------------------------------------------------------------------
\* AgentService.processMemoryToolCall
\* ---------------------------------------------------------------------
ToolResult(tool, error, found, result) ==
  [called |-> TRUE, tool |-> tool, error |-> error, found |-> found,
   result |-> result]

NoTool ==
  [called |-> FALSE, tool |-> "", error |-> "", found |-> FALSE, result |-> <<>>]

\* the switch of processMemoryToolCall on the tool's name
toolSwitch(tc, its, newId, t) ==
  LET unchanged(result) == [raised |-> FALSE, items |-> its, tool |-> result]
  IN  CASE tc.name = "create_memory" ->
             IF tc.description = <<>> \/ tc.content = <<>>
               THEN unchanged(ToolResult("", "Missing required parameters for create_memory", FALSE, <<>>))
             ELSE
               Only({ IF ~isAppropriateMemoryContent(content)
                        THEN unchanged(ToolResult("", "Inappropriate content for memory storage", FALSE, <<>>))
                        ELSE Only({ [raised |-> FALSE, items |-> s.items,
                                     tool |-> ToolResult(tc.name, "", TRUE, <<s.item>>)]
                                    : s \in {storeMemory(its, newId, t, description, content)} })
                      : description \in {Sanitized[tc.description]},
                        content \in {Sanitized[tc.content]} })
        [] tc.name = "get_memory" ->
             IF tc.id = ""
               THEN unchanged(ToolResult("", "Invalid or missing ID for get_memory", FALSE, <<>>))
               ELSE Only({ unchanged(ToolResult(tc.name, "", g.found,
                                                IF g.found THEN <<g.item>> ELSE <<>>))
                           : g \in {getMemory(its, tc.id)} })
        [] tc.name = "update_memory" ->
             IF tc.id = ""
               THEN unchanged(ToolResult("", "Invalid or missing ID for update_memory", FALSE, <<>>))
             ELSE
               Only({ IF tc.content # <<>> /\ ~isAppropriateMemoryContent(content)
                        THEN unchanged(ToolResult("", "Inappropriate content for memory storage", FALSE, <<>>))
                        ELSE Only({ [raised |-> FALSE, items |-> u.items,
                                     tool |-> ToolResult(tc.name, "", u.found,
                                                         IF u.found THEN <<u.item>> ELSE <<>>)]
                                    : u \in {updateMemory(its, tc.id,
                                               UpdateData(tc.description # <<>>, description,
                                                          tc.content # <<>>, content), t)} })
                      : description \in {Sanitized[tc.description]},
                        content \in {Sanitized[tc.content]} })
        [] tc.name = "delete_memory" ->
             IF tc.id = ""
               THEN unchanged(ToolResult("", "Invalid or missing ID for delete_memory", FALSE, <<>>))
               ELSE Only({ [raised |-> FALSE, items |-> d.items,
                            tool |-> ToolResult(tc.name, "", d.deleted, <<>>)]
                           : d \in {deleteMemory(its, tc.id)} })
        [] tc.name = "search_memories" ->
             IF tc.query = <<>>
               THEN unchanged(ToolResult("", "Invalid or missing query for search_memories", FALSE, <<>>))
               ELSE unchanged(ToolResult(tc.name, "", TRUE,
                                         searchMemories(its, Sanitized[tc.query])))
        [] tc.name = "list_all_memories" ->
             unchanged(ToolResult(tc.name, "", TRUE, getAllMemories(its)))
        [] OTHER -> unchanged(ToolResult(tc.name, "Unknown memory tool", FALSE, <<>>))

\* the tools whose case reads a field of the parsed arguments
ReadsArguments(name) ==
  name \in {"create_memory", "get_memory", "update_memory", "delete_memory",
            "search_memories"}

\* the part of processMemoryToolCall after the provider answered
toolCallFinish(tc, its, newId, t) ==
  IF ~tc.toolCalls
    THEN [raised |-> FALSE, items |-> its,
          tool |-> ToolResult("", "No memory tool was called", FALSE, <<>>)]
  ELSE IF tc.name = ""
    THEN [raised |-> FALSE, items |-> its,
          tool |-> ToolResult("", "Invalid tool call format", FALSE, <<>>)]
  ELSE IF tc.args = "malformed"
    THEN [raised |-> FALSE, items |-> its,
          tool |-> ToolResult("", "Invalid tool call arguments", FALSE, <<>>)]
  ELSE IF tc.args = "null" /\ ReadsArguments(tc.name)
    THEN [raised |-> TRUE, items |-> its, tool |-> NoTool]
  ELSE toolSwitch(tc, its, newId, t)

\* ---------------------------------------------------------------------
\* One request to the AgentService, from its call to its return
\* ---------------------------------------------------------------------
IdleReq ==
  [op |-> "none", pc |-> "idle", status |-> "idle", input |-> <<>>,
   response |-> NoResponse, calls |-> <<>>, instructions |-> <<>>,
   usedMemories |-> <<>>, mem |-> NoMem, tool |-> NoTool,
   chunks |-> <<>>, next |-> 0, completeResponse |-> <<>>, afterStream |-> <<>>,
   commandRecords |-> 0]

Started(op, input) == [IdleReq EXCEPT !.op = op, !.input = input]

Raised(req) == [req EXCEPT !.pc = "done", !.status = "raised"]

\* the method returns: to the caller of the AgentService, or to the
\* controller's loop over the chunks of a stream that has chunks left
Returned(req) ==
  IF req.op = "streamResponse" /\ req.next \in 1..Len(req.chunks)
    THEN [req EXCEPT !.pc = "chunks", !.status = "running"]
    ELSE [req EXCEPT !.pc = "done", !.status = "returned"]

\* the request waits for the provider's generateResponse
CallsGenerate(req, instructions) ==
  [req EXCEPT !.pc = "generate", !.status = "running",
              !.calls = Append(@, "generate"), !.instructions = instructions]

\* the request waits for the provider's streamResponse
CallsStream(req) ==
  [req EXCEPT !.pc = "stream", !.status = "running", !.calls = Append(@, "stream")]

\* the request waits for the provider's functionCall
CallsFunctionCall(req, pc) ==
  [req EXCEPT !.pc = pc, !.status = "running",
              !.calls = Append(@, "functionCall")]


\* ---------------------------------------------------------------------
\* State
\* ---------------------------------------------------------------------
VARIABLES
  items,   \* InMemoryDatabase.items of the AgentService's MemoryService
  controllerItems, \* InMemoryDatabase.items of the MemoryController's MemoryService
  now,     \* the clock new Date() reads
  origin,  \* for every id, the write path that created its live record
  reqs,    \* the requests to the AgentService
  last     \* the last direct call of the MemoryService, or of the detector,
           \* and what it returned

vars == <<items, controllerItems, now, origin, reqs, last>>

Reqs == {"r1", "r2"}

\* the request of the specifications of one request at a time
One == {"r1"}

Last(op, id, description, content, query, found, result) ==
  [op |-> op, id |-> id, description |-> description, content |-> content,
   query |-> query, threw |-> FALSE, found |-> found, result |-> result]

NoLast == Last("none", "", <<>>, <<>>, <<>>, FALSE, <<>>)

Init ==
  /\ items = <<>>
  /\ controllerItems = <<>>
  /\ now = 0
  /\ origin = [i \in Ids |-> "none"]
  /\ reqs = [r \in Reqs |-> IdleReq]
  /\ last = NoLast

\* the write path of the live records after a step
OriginAfter(its, created, tag) ==
  [i \in Ids |->
     IF IndexOfId(its, i) = 0 THEN "none"
     ELSE IF i \in created THEN tag
     ELSE origin[i]]

CreatedIds(updates) ==
  {updates[k].item.id : k \in {j \in 1..Len(updates) : updates[j].action = "created"}}

\* ---------------------------------------------------------------------
\* Actions of the AgentService: each is the run of a method from one await
\* of the provider to the next
\* ---------------------------------------------------------------------
CanStart(r) == reqs[r].pc \in {"idle", "done"}

\* the request r, now req, stops at its next await or at its end, with the
\* store its; created are the ids of the records this run created, counted
\* in commandRecords if processMemoryCommand created them
Proceed(r, req, its, created, tag) ==
  /\ Len(its) <= MaxItems
  /\ items' = its
  /\ reqs' = [reqs EXCEPT ![r] =
                [req EXCEPT !.commandRecords =
                   IF tag = "command" THEN @ + Cardinality(created) ELSE @]]
  /\ origin' = OriginAfter(its, created, tag)
  /\ UNCHANGED <<controllerItems, now, last>>

\* the acknowledgment of a command
Acknowledged(req, type, p) ==
  Returned([req EXCEPT !.response =
              Response(AckOutput(type, p.description, p.content), "memory-command")])

\* a generateResponse that stores the command and then asks the provider,
\* as streamResponse does
GenerateResponseThenProvider(r, input, id) ==
  /\ CanStart(r)
  /\ \E memoryCommand \in {Detected[input]},
        req \in {Started("generateResponse", input)} :
       IF memoryCommand.matched
         THEN \E p \in {Processed[memoryCommand]} :
                IF p.threw
                  THEN Proceed(r, Raised(req), items, {}, "command")
                  ELSE \E s \in {storeMemory(items, id, now, p.description, p.content)} :
                         Proceed(r, CallsGenerate(req, defaultInstructions),
                                 s.items, {id}, "command")
         ELSE Proceed(r, CallsGenerate(req, defaultInstructions), items, {}, "command")

\* AgentService.generateResponse up to its await of the provider, or to its
\* end for a command
GenerateResponse(r, input, id) ==
  /\ CanStart(r)
  /\ \E memoryCommand \in {Detected[input]},
        req \in {Started("generateResponse", input)} :
       IF memoryCommand.matched
         THEN \E p \in {Processed[memoryCommand]} :
                IF p.threw
                  THEN Proceed(r, Raised(req), items, {}, "command")
                  ELSE \E s \in {storeMemory(items, id, now, p.description, p.content)} :
                         Proceed(r, Acknowledged(req, memoryCommand.type, p),
                                 s.items, {id}, "command")
         ELSE Proceed(r, CallsGenerate(req, defaultInstructions), items, {}, "command")

\* AgentService.generateResponseWithMemory up to its await of the provider,
\* or to its end for a command or an invalid input
GenerateResponseWithMemory(r, input, id) ==
  /\ CanStart(r)
  /\ \E req \in {Started("generateResponseWithMemory", input)} :
       IF input = <<>>
         THEN Proceed(r, Raised(req), items, {}, "command")
         ELSE \E detected \in {Detected[input]} :
           IF detected.matched
             THEN \E p \in {Processed[Presanitized(detected)]} :
                    IF p.threw
                      THEN Proceed(r, Raised(req), items, {}, "command")
                      ELSE \E s \in {storeMemory(items, id, now, p.description, p.content)} :
                             Proceed(r, Acknowledged(req, detected.type, p),
                                     s.items, {id}, "command")
             ELSE \E found \in {relevantMemories(items, Keywords[input], 1, <<>>)} :
                    Proceed(r, CallsGenerate([req EXCEPT !.usedMemories = found],
                                             enhancedInstructions(defaultInstructions, found)),
                            items, {}, "command")

\* AgentService.considerUpdatingMemory, called by the request req, up to its
\* await of the provider or to its end
considerUpdatingMemory(r, req, userInput, agentOutput, id) ==
  IF userInput = <<>>
    THEN Proceed(r, Returned([req EXCEPT !.mem =
                   MemResult(FALSE, "Invalid user input", "", <<>>)]), items, {}, "command")
  ELSE IF agentOutput = <<>>
    THEN Proceed(r, Returned([req EXCEPT !.mem =
                   MemResult(FALSE, "Invalid agent output", "", <<>>)]), items, {}, "command")
  ELSE \E detected \in {Detected[userInput]} :
    IF ~detected.matched
      THEN Proceed(r, CallsFunctionCall(req, "functionCall"), items, {}, "command")
      ELSE \E p \in {Processed[Presanitized(detected)]} :
        IF p.threw
          THEN Proceed(r, Returned([req EXCEPT !.mem = considerCatch]), items, {}, "command")
          ELSE \E s \in {storeMemory(items, id, now, p.description, p.content)} :
                 Proceed(r, Returned([req EXCEPT !.mem =
                              MemResult(TRUE, "", "explicit",
                                        <<UpdateEntry("created", TRUE, s.item)>>)]),
                         s.items, {id}, "command")

\* AgentService.updateMemoryAfterStream
UpdateMemoryAfterStream(r, input, output, id) ==
  /\ CanStart(r)
  /\ considerUpdatingMemory(r, Started("updateMemoryAfterStream", input), input, output, id)

\* AgentController.streamResponse up to the await of the provider's stream
\* in AgentService.streamResponse, or to its end for an invalid input or a
\* command that processMemoryCommand rejects
StreamResponse(r, input, id) ==
  /\ CanStart(r)
  /\ \E req \in {Started("streamResponse", input)} :
       IF input = <<>>
         THEN Proceed(r, Raised(req), items, {}, "command")
         ELSE \E detected \in {Detected[input]} :
           IF ~detected.matched
             THEN Proceed(r, CallsStream(req), items, {}, "command")
             ELSE \E p \in {Processed[detected]} :
                    IF p.threw
                      THEN Proceed(r, Raised(req), items, {}, "command")
                      ELSE \E s \in {storeMemory(items, id, now, p.description, p.content)} :
                             Proceed(r, CallsStream(req), s.items, {id}, "command")

\* the provider's streamResponse resolves with a stream
ProviderStreamReturns(r, chunks) ==
  /\ reqs[r].pc = "stream"
  /\ reqs' = [reqs EXCEPT ![r] = [@ EXCEPT !.pc = "chunks", !.chunks = chunks, !.next = 1]]
  /\ UNCHANGED <<controllerItems, items, now, origin, last>>

\* the provider's streamResponse rejects
ProviderStreamThrows(r) ==
  /\ reqs[r].pc = "stream"
  /\ reqs' = [reqs EXCEPT ![r] = Raised(@)]
  /\ UNCHANGED <<controllerItems, items, now, origin, last>>

\* one turn of the controller's loop over the stream, or the end of the
\* loop: a delta is accumulated, an event whose type contains "done" calls
\* updateMemoryAfterStream with what has been accumulated
StreamChunk(r, id) ==
  /\ reqs[r].pc = "chunks"
  /\ \E req \in {reqs[r]} :
       IF req.next > Len(req.chunks)
         THEN Proceed(r, [req EXCEPT !.pc = "done", !.status = "returned"],
                      items, {}, "command")
         ELSE \E chunk \in {req.chunks[req.next]} :
           IF includes(chunk.type, <<"d", "e", "l", "t", "a">>)
             THEN Proceed(r, [req EXCEPT !.next = @ + 1,
                                         !.completeResponse = @ \o chunk.delta],
                          items, {}, "command")
           ELSE IF includes(chunk.type, <<"d", "o", "n", "e">>)
             THEN considerUpdatingMemory(r,
                    [req EXCEPT !.next = @ + 1,
                                !.afterStream = Append(@, req.completeResponse)],
                    req.input, req.completeResponse, id)
           ELSE Proceed(r, [req EXCEPT !.next = @ + 1], items, {}, "command")

\* AgentService.processMemoryToolCall up to its await of the provider, or to
\* its end for a command or an invalid input
ProcessMemoryToolCall(r, input, id) ==
  /\ CanStart(r)
  /\ \E req \in {Started("processMemoryToolCall", input)} :
       IF input = <<>>
         THEN Proceed(r, Raised(req), items, {}, "command")
         ELSE \E memoryCommand \in {Detected[input]} :
           IF memoryCommand.matched
             THEN \E p \in {Processed[memoryCommand]} :
                    IF p.threw
                      THEN Proceed(r, Raised(req), items, {}, "command")
                      ELSE \E s \in {storeMemory(items, id, now, p.description, p.content)} :
                             Proceed(r, Returned([req EXCEPT !.tool =
                                          ToolResult("create_memory", "", TRUE, <<s.item>>)]),
                                     s.items, {id}, "command")
             ELSE Proceed(r, CallsFunctionCall(req, "toolCall"), items, {}, "command")

\* a generate method that returns the provider's response without waiting
\* for considerUpdatingMemory
ProviderGenerateReturnsAtOnce(r, output, id) ==
  /\ reqs[r].pc = "generate"
  /\ reqs' = [reqs EXCEPT ![r] =
                Returned([@ EXCEPT !.response = Response(output, "provider")])]
  /\ UNCHANGED <<controllerItems, items, now, origin, last>>

\* the provider's generateResponse resolves: both generate methods go on
\* with considerUpdatingMemory
ProviderGenerateReturns(r, output, id) ==
  /\ reqs[r].pc = "generate"
  /\ \E req \in {[reqs[r] EXCEPT !.response = Response(output, "provider")]} :
       considerUpdatingMemory(r, req, req.input,
                              IF req.op = "generateResponseWithMemory"
                                THEN Sanitized[output] ELSE output,
                              id)

\* the provider's generateResponse rejects: logged and thrown again
ProviderGenerateThrows(r) ==
  /\ reqs[r].pc = "generate"
  /\ reqs' = [reqs EXCEPT ![r] = Raised(@)]
  /\ UNCHANGED <<controllerItems, items, now, origin, last>>

\* the provider's functionCall resolves inside considerUpdatingMemory
ProviderFunctionCallReturns(r, fc, idOf) ==
  /\ reqs[r].pc = "functionCall"
  /\ \E f \in {considerFinish(fc, items, idOf, now)} :
       Proceed(r, Returned([reqs[r] EXCEPT !.mem = f.mem]), f.items,
               CreatedIds(f.mem.updates), "model")

\* the same with the MemoryService that validates
ProviderFunctionCallReturnsValidated(r, fc, idOf) ==
  /\ reqs[r].pc = "functionCall"
  /\ \E f \in {considerFinishValidated(fc, items, idOf, now)} :
       Proceed(r, Returned([reqs[r] EXCEPT !.mem = f.mem]), f.items,
               CreatedIds(f.done), "model")

\* a functionCall failure that escapes considerUpdatingMemory
ProviderFunctionCallEscapes(r) ==
  /\ reqs[r].pc = "functionCall"
  /\ reqs' = [reqs EXCEPT ![r] = Raised(@)]
  /\ UNCHANGED <<controllerItems, items, now, origin, last>>

\* the provider's functionCall rejects inside considerUpdatingMemory
ProviderFunctionCallThrows(r) ==
  /\ reqs[r].pc = "functionCall"
  /\ reqs' = [reqs EXCEPT ![r] = Returned([@ EXCEPT !.mem = considerCatch])]
  /\ UNCHANGED <<controllerItems, items, now, origin, last>>

\* the provider's functionCall resolves inside processMemoryToolCall
ProviderToolCallReturns(r, tc, id) ==
  /\ reqs[r].pc = "toolCall"
  /\ \E f \in {toolCallFinish(tc, items, id, now)} :
       Proceed(r, IF f.raised THEN Raised(reqs[r])
                  ELSE Returned([reqs[r] EXCEPT !.tool = f.tool]),
               f.items, IF f.tool.tool = "create_memory" THEN {id} ELSE {}, "tool")

\* the provider's functionCall rejects inside processMemoryToolCall
ProviderToolCallThrows(r) ==
  /\ reqs[r].pc = "toolCall"
  /\ reqs' = [reqs EXCEPT ![r] = Raised(@)]
  /\ UNCHANGED <<controllerItems, items, now, origin, last>>

\* ---------------------------------------------------------------------
\* Direct calls of the MemoryService
\* ---------------------------------------------------------------------
StoreMemory(description, content, id) ==
  LET s == storeMemory(items, id, now, description, content)
  IN  /\ Len(s.items) <= MaxItems
      /\ items' = s.items
      /\ origin' = OriginAfter(s.items, {id}, "api")
      /\ last' = Last("storeMemory", id, description, content, <<>>, TRUE, <<s.item>>)
      /\ UNCHANGED <<controllerItems, now, reqs>>

GetMemory(id) ==
  LET g == getMemory(items, id)
  IN  /\ last' = Last("getMemory", id, <<>>, <<>>, <<>>, g.found,
                      IF g.found THEN <<g.item>> ELSE <<>>)
      /\ UNCHANGED <<controllerItems, items, now, origin, reqs>>

GetAllMemories ==
  /\ last' = Last("getAllMemories", "", <<>>, <<>>, <<>>, TRUE, getAllMemories(items))
  /\ UNCHANGED <<controllerItems, items, now, origin, reqs>>

UpdateMemory(id, data) ==
  LET u == updateMemory(items, id, data, now)
  IN  /\ items' = u.items
      /\ last' = Last("updateMemory", id, data.description, data.content, <<>>,
                      u.found, IF u.found THEN <<u.item>> ELSE <<>>)
      /\ UNCHANGED <<controllerItems, now, origin, reqs>>

DeleteMemory(id) ==
  LET d == deleteMemory(items, id)
  IN  /\ items' = d.items
      /\ origin' = OriginAfter(d.items, {}, "api")
      /\ last' = Last("deleteMemory", id, <<>>, <<>>, <<>>, d.deleted, <<>>)
      /\ UNCHANGED <<controllerItems, now, reqs>>

SearchMemories(query) ==
  /\ last' = Last("searchMemories", "", <<>>, <<>>, query, TRUE,
                  searchMemories(items, query))
  /\ UNCHANGED <<controllerItems, items, now, origin, reqs>>

\* the direct calls of the revision of the MemoryService that validates
StoreMemoryValidated(description, content, id) ==
  \E s \in {storeMemoryValidated(items, id, now, description, content)} :
    /\ Len(s.items) <= MaxItems
    /\ items' = s.items
    /\ origin' = IF s.threw THEN origin ELSE OriginAfter(s.items, {id}, "api")
    /\ last' = [Last("storeMemory", IF s.threw THEN "" ELSE id, description,
                     content, <<>>, ~s.threw,
                     IF s.threw THEN <<>> ELSE <<s.item>>)
                  EXCEPT !.threw = s.threw]
    /\ UNCHANGED <<controllerItems, now, reqs>>

UpdateMemoryValidated(id, data) ==
  \E u \in {updateMemoryValidated(items, id, data, now)} :
    /\ items' = u.items
    /\ last' = [Last("updateMemory", id, data.description, data.content, <<>>,
                     u.found, IF u.found THEN <<u.item>> ELSE <<>>)
                  EXCEPT !.threw = u.threw]
    /\ UNCHANGED <<controllerItems, now, origin, reqs>>

SearchMemoriesValidated(query) ==
  \E s \in {searchMemoriesValidated(items, query)} :
    /\ last' = [Last("searchMemories", "", <<>>, <<>>, query, ~s.threw, s.result)
                  EXCEPT !.threw = s.threw]
    /\ UNCHANGED <<controllerItems, items, now, origin, reqs>>

\* the direct call of getRelevantMemories
GetRelevantMemories(input) ==
  /\ last' = Last("getRelevantMemories", "", <<>>, <<>>, input, TRUE,
                  getRelevantMemories(items, input))
  /\ UNCHANGED <<controllerItems, items, now, origin, reqs>>

\* AgentService.detectMemoryCommand applied to the input last.query
DetectMemoryCommand ==
  /\ last.op = "input"
  /\ last' = Last("detectMemoryCommand", "", <<>>, <<>>, last.query, TRUE,
                  <<detectMemoryCommand(last.query)>>)
  /\ UNCHANGED <<controllerItems, items, now, origin, reqs>>

\* AgentService.extractKeywords applied to the input last.query
ExtractKeywords ==
  /\ last.op = "input"
  /\ last' = Last("extractKeywords", "", <<>>, <<>>, last.query, TRUE,
                  extractKeywords(last.query))
  /\ UNCHANGED <<controllerItems, items, now, origin, reqs>>

\* MemoryService.extractKeywords (src/unnamed/part_005) applied to it
ExtractKeywordsUpTo10 ==
  /\ last.op = "input"
  /\ last' = Last("extractKeywordsUpTo10", "", <<>>, <<>>, last.query, TRUE,
                  extractKeywordsUpTo10(last.query))
  /\ UNCHANGED <<controllerItems, items, now, origin, reqs>>

\* MemoryController.create: POST /api/memory
ControllerCreate(description, content, id) ==
  /\ IF \/ description = <<>>
        \/ content = <<>>
        \/ Len(description) > MAX_DESCRIPTION_LENGTH
        \/ Len(content) > MAX_CONTENT_LENGTH
       THEN /\ last' = [Last("controllerCreate", "", description, content, <<>>, FALSE, <<>>)
                         EXCEPT !.threw = TRUE]
            /\ UNCHANGED controllerItems
       ELSE \E s \in {storeMemory(controllerItems, id, now, description, content)} :
              /\ Len(s.items) <= MaxItems
              /\ controllerItems' = s.items
              /\ last' = Last("controllerCreate", id, description, content, <<>>, TRUE, <<s.item>>)
  /\ UNCHANGED <<items, now, origin, reqs>>

\* MemoryController.getAll: GET /api/memory
ControllerGetAll ==
  /\ last' = Last("controllerGetAll", "", <<>>, <<>>, <<>>, TRUE, getAllMemories(controllerItems))
  /\ UNCHANGED <<items, controllerItems, now, origin, reqs>>

\* AgentController.getMemories: AgentService.getAllMemories
AgentGetAllMemories ==
  /\ last' = Last("agentGetAllMemories", "", <<>>, <<>>, <<>>, TRUE, getAllMemories(items))
  /\ UNCHANGED <<items, controllerItems, now, origin, reqs>>

\* time passes between two steps
Tick ==
  /\ now < MaxClock
  /\ now' = now + 1
  /\ UNCHANGED <<controllerItems, items, origin, reqs, last>>

\* a caller writes a field of a record object a MemoryService call returned
MutateReturned(k, content) ==
  /\ k \in 1..Len(last.result)
  /\ LET j == IndexOfId(items, last.result[k].id)
     IN  /\ j # 0
         /\ items[j] = last.result[k]
         /\ items' = [items EXCEPT ![j].content = content]
         /\ last' = [last EXCEPT !.result[k].content = content]
  /\ UNCHANGED <<controllerItems, now, origin, reqs>>

\* ---------------------------------------------------------------------
\* Specifications
\* ---------------------------------------------------------------------
\* AgentService.generateResponse and generateResponseWithMemory
NextGenerate ==
  \/ \E r \in One, input \in UserInputs, id \in Ids : GenerateResponse(r, input, id)
  \/ \E r \in One, input \in UserInputs, id \in Ids :
       GenerateResponseWithMemory(r, input, id)
  \/ \E r \in One, output \in ProviderOutputs, id \in Ids :
       ProviderGenerateReturns(r, output, id)
  \/ \E r \in One : ProviderGenerateThrows(r)
  \/ \E r \in One, fc \in FunctionCallResponses, idOf \in [1..MaxBatch -> Ids] :
       ProviderFunctionCallReturns(r, fc, idOf)
  \/ \E r \in One : ProviderFunctionCallThrows(r)

\* generateResponseWithMemory with keywords longer than a search query
SpecLongKeyword ==
  Init /\ [][\/ \E r \in One, input \in LongInputs, id \in Ids :
                  GenerateResponseWithMemory(r, input, id)
             \/ \E r \in One, output \in ProviderOutputs, id \in Ids :
                  ProviderGenerateReturns(r, output, id)
             \/ \E r \in One : ProviderGenerateThrows(r)
             \/ \E r \in One, fc \in FunctionCallResponses, idOf \in [1..MaxBatch -> Ids] :
                  ProviderFunctionCallReturns(r, fc, idOf)
             \/ \E r \in One : ProviderFunctionCallThrows(r)]_vars

\* AgentService.updateMemoryAfterStream, which is considerUpdatingMemory
NextStream ==
  \/ \E r \in One, input \in UserInputs, output \in ProviderOutputs, id \in Ids :
       UpdateMemoryAfterStream(r, input, output, id)
  \/ \E r \in One, fc \in FunctionCallResponses, idOf \in [1..MaxBatch -> Ids] :
       ProviderFunctionCallReturns(r, fc, idOf)
  \/ \E r \in One : ProviderFunctionCallThrows(r)

\* considerUpdatingMemory of an input that is no command, with the
\* MemoryService that validates
SpecStreamValidated ==
  Init /\ [][\/ \E r \in One, input \in {InQuestion, <<>>}, output \in ProviderOutputs, id \in Ids :
                  UpdateMemoryAfterStream(r, input, output, id)
             \/ \E r \in One, idOf \in [1..MaxBatch -> Ids],
                   fc \in FunctionCallResponses
                           \cup {FunctionCallResponse(TRUE, "update_agent_memory", "object",
                                                       TRUE, TRUE, RejectedItemList)} :
                  ProviderFunctionCallReturnsValidated(r, fc, idOf)
             \/ \E r \in One : ProviderFunctionCallThrows(r)
             \/ Tick]_vars

\* AgentController.streamResponse: a streamed turn
SpecStreamTurn ==
  Init /\ [][\/ \E r \in One, input \in UserInputs, id \in Ids : StreamResponse(r, input, id)
             \/ \E r \in One, chunks \in Streams : ProviderStreamReturns(r, chunks)
             \/ \E r \in One : ProviderStreamThrows(r)
             \/ \E r \in One, id \in Ids : StreamChunk(r, id)
             \/ \E r \in One, fc \in FunctionCallResponses, idOf \in [1..MaxBatch -> Ids] :
                  ProviderFunctionCallReturns(r, fc, idOf)
             \/ \E r \in One : ProviderFunctionCallThrows(r)]_vars

\* two requests at a time that write the same record: tool calls and
\* considerUpdatingMemory
SpecConcurrent ==
  Init /\ [][\/ \E r \in Reqs, id \in Ids : ProcessMemoryToolCall(r, InQuestion, id)
             \/ \E r \in Reqs, tc \in ConcurrentToolCalls, id \in Ids :
                  ProviderToolCallReturns(r, tc, id)
             \/ \E r \in Reqs, id \in Ids :
                  UpdateMemoryAfterStream(r, InQuestion, <<"I", "t", " ", "i", "s", " ", "b", "l", "u", "e">>, id)
             \/ \E r \in Reqs, idOf \in [1..MaxBatch -> Ids] :
                  ProviderFunctionCallReturns(r, ConcurrentFunctionCall, idOf)]_vars

\* the two controllers of the process: the memory API, and the agent's
\* turns and reads
SpecProcess ==
  Init /\ [][\/ \E d \in {<<>>, <<"p", "e", "t">>}, id \in Ids : ControllerCreate(d, <<"s", "k", "y", " ", "c", "o", "l", "o", "r">>, id)
             \/ ControllerGetAll
             \/ AgentGetAllMemories
             \/ \E r \in One, input \in {InRemember, InQuestion}, id \in Ids :
                  GenerateResponseWithMemory(r, input, id)
             \/ \E r \in One, id \in Ids : ProviderGenerateReturns(r, <<"I", "t", " ", "i", "s", " ", "b", "l", "u", "e">>, id)
             \/ \E r \in One, idOf \in [1..MaxBatch -> Ids] :
                  ProviderFunctionCallReturns(r, ConcurrentFunctionCall, idOf)
             \/ \E r \in One, fc \in FunctionCallResponses, idOf \in [1..MaxBatch -> Ids] :
                  /\ Len(fc.memory_items) = 1
                  /\ ProviderFunctionCallReturns(r, fc, idOf)]_vars

\* AgentService.processMemoryToolCall
NextTool ==
  \/ \E r \in One, input \in UserInputs, id \in Ids : ProcessMemoryToolCall(r, input, id)
  \/ \E r \in One, tc \in ToolCallResponses, id \in Ids :
       ProviderToolCallReturns(r, tc, id)
  \/ \E r \in One : ProviderToolCallThrows(r)

NextAgent == NextGenerate \/ NextStream \/ NextTool

\* the direct calls of the MemoryService
NextService ==
  \/ \E d \in Descriptions, c \in Contents, id \in Ids : StoreMemory(d, c, id)
  \/ \E id \in Ids : GetMemory(id)
  \/ GetAllMemories
  \/ \E id \in Ids, data \in UpdateDatas : UpdateMemory(id, data)
  \/ \E id \in Ids : DeleteMemory(id)
  \/ \E q \in Queries : SearchMemories(q)

Next == NextAgent \/ NextService \/ Tick

Spec == Init /\ [][Next]_vars

SpecGenerate == Init /\ [][NextGenerate]_vars

SpecStream == Init /\ [][NextStream]_vars

SpecTool == Init /\ [][NextTool]_vars

SpecService == Init /\ [][NextService \/ Tick]_vars

\* the direct calls of the revision of the MemoryService that validates
NextValidated ==
  \/ \E d \in PaddedDescriptions, c \in Contents, id \in Ids :
       StoreMemoryValidated(d, c, id)
  \/ \E id \in Ids : GetMemory(id)
  \/ GetAllMemories
  \/ \E id \in Ids, data \in UpdateDatas : UpdateMemoryValidated(id, data)
  \/ \E id \in Ids : DeleteMemory(id)
  \/ \E q \in Queries : SearchMemoriesValidated(q)

SpecValidated == Init /\ [][NextValidated \/ Tick]_vars

\* the direct calls of the revision of the MemoryService with
\* getRelevantMemories
NextRelevant ==
  \/ \E d \in Descriptions, c \in Contents, id \in Ids : StoreMemory(d, c, id)
  \/ \E id \in Ids, data \in UpdateDatas : UpdateMemory(id, data)
  \/ \E id \in Ids : DeleteMemory(id)
  \/ \E input \in RelevantInputs : GetRelevantMemories(input)

SpecRelevant == Init /\ [][NextRelevant]_vars

\* the detector alone, applied to one of its inputs
InitDetect ==
  /\ items = <<>>
  /\ controllerItems = <<>>
  /\ now = 0
  /\ origin = [i \in Ids |-> "none"]
  /\ reqs = [r \in Reqs |-> IdleReq]
  /\ \E input \in DetectorInputs :
       last = Last("input", "", <<>>, <<>>, input, FALSE, <<>>)

NextDetect == DetectMemoryCommand

SpecDetect == InitDetect /\ [][NextDetect]_vars

\* the two keyword extractors alone, applied to one of their inputs
InitKeywords ==
  /\ items = <<>>
  /\ controllerItems = <<>>
  /\ now = 0
  /\ origin = [i \in Ids |-> "none"]
  /\ reqs = [r \in Reqs |-> IdleReq]
  /\ \E input \in KeywordInputs :
       last = Last("input", "", <<>>, <<>>, input, FALSE, <<>>)

SpecKeywords == InitKeywords /\ [][ExtractKeywords \/ ExtractKeywordsUpTo10]_vars

\* the MemoryService with a caller that writes to the objects it was given
SpecAlias ==
  Init /\ [][NextService \/ Tick
             \/ \E k \in 1..MaxItems, c \in Contents : MutateReturned(k, c)]_vars

\* ---------------------------------------------------------------------
\* Properties
\* ---------------------------------------------------------------------
GenerateOps == {"generateResponse", "generateResponseWithMemory"}

\* C1: when the Command Detector returns a command for the input,
\* generateResponse and generateResponseWithMemory call neither generate nor
\* functionCall of the provider, and what they return is the acknowledgment
CommandMakesNoProviderCall ==
  \A r \in Reqs :
    (reqs[r].op \in GenerateOps /\ Detected[reqs[r].input].matched) =>
      /\ reqs[r].calls = <<>>
      /\ reqs[r].status = "returned" =>
           reqs[r].response.requestId = "memory-command"

CommandAcknowledged ==
  \E r \in Reqs :
    /\ reqs[r].op \in GenerateOps
    /\ Detected[reqs[r].input].matched
    /\ reqs[r].status = "returned"
    /\ reqs[r].response.requestId = "memory-command"
    /\ items # <<>>

\* C2: when the Command Detector returns a command for the input,
\* generateResponse ends with exactly one more record in the store, and the
\* content of that record is the content the detector captured
CommandDefinitelyStored ==
  [][\A r \in Reqs, input \in UserInputs, id \in Ids :
       (GenerateResponse(r, input, id) /\ Detected[input].matched) =>
         /\ Len(items') = Len(items) + 1
         /\ items'[Len(items')].content = Detected[input].content]_vars

\* the request has the result of a failed considerUpdatingMemory
ConsiderFailed(req) ==
  /\ req.status = "returned"
  /\ req.mem.called
  /\ ~req.mem.updated
  /\ req.mem.error # ""

\* the arguments of the tool call are no JSON object
BadArguments(fc) ==
  /\ fc.toolCalls
  /\ fc.name = "update_agent_memory"
  /\ fc.args \in {"empty", "malformed", "null"}

MemoryFailureLeavesAnswer ==
  [][\A r \in Reqs :
       /\ \A output \in ProviderOutputs, id \in Ids :
            ProviderGenerateReturns(r, output, id) =>
              /\ reqs'[r].status # "raised"
              /\ reqs'[r].response = Response(output, "provider")
       /\ (reqs[r].op \in GenerateOps /\ reqs[r].pc = "functionCall"
           /\ reqs'[r] # reqs[r]) =>
              /\ reqs'[r].status = "returned"
              /\ reqs'[r].response = reqs[r].response]_vars

AnswerAfterMemoryFailure ==
  \E r \in Reqs :
    /\ reqs[r].op \in GenerateOps
    /\ reqs[r].status = "returned"
    /\ reqs[r].calls = <<"generate", "functionCall">>
    /\ reqs[r].response.requestId = "provider"
    /\ reqs[r].response.output # <<>>
    /\ ConsiderFailed(reqs[r])

\* a keyword of the input is a case-insensitive substring of the record's
\* description or content
KeywordHits(input, item) ==
  \E i \in 1..Len(Keywords[input]) :
    \/ includes(toLowerCase(item.description), toLowerCase(Keywords[input][i]))
    \/ includes(toLowerCase(item.content), toLowerCase(Keywords[input][i]))

\* C5: when generateResponseWithMemory has retrieved for an input that is no
\* command, every live record written through the command path of which a
\* keyword of the input is a case-insensitive substring is in usedMemories,
\* and its description and content are in the instructions given to generate
CommandRecordBiasesLaterTurns ==
  \A r \in Reqs :
    (reqs[r].op = "generateResponseWithMemory" /\ reqs[r].pc = "generate") =>
      \A k \in 1..Len(items) :
        (origin[items[k].id] = "command" /\ KeywordHits(reqs[r].input, items[k])) =>
          /\ \E j \in 1..Len(reqs[r].usedMemories) : reqs[r].usedMemories[j] = items[k]
          /\ includes(reqs[r].instructions,
                      <<"-", " ">> \o items[k].description \o <<":", " ">> \o items[k].content)

CommandRecordRetrieved ==
  \E r \in Reqs, k \in 1..Len(items) :
    /\ reqs[r].op = "generateResponseWithMemory"
    /\ reqs[r].pc = "generate"
    /\ origin[items[k].id] = "command"
    /\ KeywordHits(reqs[r].input, items[k])
    /\ reqs[r].usedMemories # <<>>

\* C6: every live record has a non-empty description and a non-empty content
LiveRecordsNonEmpty ==
  \A k \in 1..Len(items) :
    /\ items[k].description # <<>>
    /\ items[k].content # <<>>

\* C7: every create adds exactly one record and leaves the records that were
\* in the store as they were
CreateAddsOneRecord ==
  [][\A d \in Descriptions, c \in Contents, id \in Ids :
       StoreMemory(d, c, id) =>
         /\ Len(items') = Len(items) + 1
         /\ SubSeq(items', 1, Len(items)) = items]_vars

\* C8: writing a field of a record object that a call of the service
\* returned changes nothing in the store
ReturnedRecordsAreCopies ==
  [][\A k \in 1..MaxItems, c \in Contents :
       MutateReturned(k, c) => items' = items]_vars

\* C9: storeMemory with an empty description or an empty content fails and
\* leaves the store unchanged; otherwise it creates one record and returns it
StoreMemoryValidates ==
  [][\A d \in Descriptions, c \in Contents, id \in Ids :
       StoreMemory(d, c, id) =>
         IF d = <<>> \/ c = <<>>
           THEN last'.threw /\ items' = items
           ELSE /\ ~last'.threw
                /\ Len(items') = Len(items) + 1
                /\ last'.result = <<items'[Len(items')]>>
                /\ items'[Len(items')].description = d
                /\ items'[Len(items')].content = c]_vars

\* C10: searchMemories with an empty or whitespace-only query fails and
\* returns no record
SearchRejectsBlankQuery ==
  (last.op = "searchMemories" /\ trim(last.query) = <<>>) =>
    (last.threw /\ last.result = <<>>)

\* C11: when storeMemory accepts a description and a content, getMemory of
\* the id of the record it returned, called next, returns a record with that
\* very description and that very content
StoreThenGetReturnsArguments ==
  [][\A d \in PaddedDescriptions, c \in Contents, id \in Ids :
       (StoreMemoryValidated(d, c, id) /\ ~last'.threw) =>
         \E g \in {getMemory(items', last'.result[1].id)} :
           /\ g.found
           /\ g.item.description = d
           /\ g.item.content = c]_vars

\* C12: every live record has updatedAt >= createdAt; a record that
\* storeMemory has just created has createdAt = updatedAt, and an
\* updateMemory that finds its record keeps createdAt and leaves updatedAt
\* strictly later than createdAt
UpdatedAtLaterExactlyWhenUpdated ==
  [][/\ \A k \in 1..Len(items') : items'[k].updatedAt >= items'[k].createdAt
     /\ \A d \in Descriptions, c \in Contents, id \in Ids :
          StoreMemory(d, c, id) =>
            \E j \in {IndexOfId(items', id)} :
              items'[j].createdAt = items'[j].updatedAt
     /\ \A id \in Ids, data \in UpdateDatas :
          (UpdateMemory(id, data) /\ last'.found) =>
            \E j \in {IndexOfId(items', id)} :
              /\ items'[j].createdAt = items[IndexOfId(items, id)].createdAt
              /\ items'[j].updatedAt > items'[j].createdAt]_vars

\* C13: an updateMemory that finds its record changes, of that record, only
\* updatedAt and the fields its data names (id, createdAt and the field that
\* is not named stay as they were), and leaves every other record of the
\* store, and the order of the records, as they were
PartialUpdateTouchesNamedOnly ==
  [][\A id \in Ids, data \in UpdateDatas :
       (UpdateMemory(id, data) /\ last'.found) =>
         \E j \in {IndexOfId(items, id)} :
           /\ j # 0
           /\ Len(items') = Len(items)
           /\ \A k \in 1..Len(items) : k # j => items'[k] = items[k]
           /\ items'[j].id = items[j].id
           /\ items'[j].createdAt = items[j].createdAt
           /\ items'[j].description =
                (IF data.hasDescription THEN data.description
                                        ELSE items[j].description)
           /\ items'[j].content =
                (IF data.hasContent THEN data.content ELSE items[j].content)]_vars

\* a content-only update has changed a record with a description, later
\* than its creation, next to another record
PartialUpdateDone ==
  /\ last.op = "updateMemory"
  /\ last.found
  /\ Len(items) = 2
  /\ \E j \in 1..Len(items) :
       /\ items[j].id = last.id
       /\ items[j].description # <<>>
       /\ items[j].content = <<"d", "o", "g">>
       /\ items[j].updatedAt > items[j].createdAt

\* every field the data gives passes validateInput
ValidData(data) ==
  /\ data.hasDescription =>
       ~validateInput(data.description, MAX_DESCRIPTION_LENGTH).threw
  /\ data.hasContent =>
       ~validateInput(data.content, MEMORY_MAX_CONTENT_LENGTH).threw

StoreThenDeleteRemoves ==
  [][\A id \in Ids :
       (DeleteMemory(id) /\ IndexOfId(items, id) # 0) =>
         /\ last'.found
         /\ ~getMemory(items', id).found
         /\ \A k \in 1..Len(getAllMemories(items')) :
              getAllMemories(items')[k].id # id
         /\ Len(items') = Len(items) - 1
         /\ items' = SelectSeq(items, LAMBDA item : item.id # id)]_vars

\* a record was deleted and another record is still in the store
DeletedNextToAnother ==
  /\ last.op = "deleteMemory"
  /\ last.found
  /\ Len(items) = 1
  /\ items[1].id # last.id

\* query occurs in text at some position, letter case ignored
ContainsIgnoringCase(text, query) ==
  \E i \in 0..(Len(text) - Len(query)) :
    \A k \in 1..Len(query) : ToLowerChar(text[i + k]) = ToLowerChar(query[k])

\* C16: a search with a query the service passes on as it is returns the
\* live records whose description or content contains the query, letter
\* case ignored, and no other record, each once, a record created earlier
\* before a record created later; on an empty store it returns the empty list
SearchReturnsMatchesInCreationOrder ==
  (last.op = "searchMemories" /\ validateQuery(last.query) = last.query) =>
    /\ \A k \in 1..Len(items) :
         (\/ ContainsIgnoringCase(items[k].description, last.query)
          \/ ContainsIgnoringCase(items[k].content, last.query))
           <=> \E j \in 1..Len(last.result) : last.result[j] = items[k]
    /\ \A j \in 1..Len(last.result) :
         \E k \in 1..Len(items) : items[k] = last.result[j]
    /\ \A i, j \in 1..Len(last.result) :
         i < j => /\ last.result[i].id # last.result[j].id
                  /\ last.result[i].createdAt <= last.result[j].createdAt
    /\ items = <<>> => last.result = <<>>

\* the number of distinct extracted keywords of the input that the record's
\* description + " " + content contains, letter case ignored
DistinctKeywordScore(item, input) ==
  Cardinality({w \in Range(extractKeywordsUpTo10(input)) :
                 ContainsIgnoringCase(item.description \o <<" ">> \o item.content, w)})

\* C17: getRelevantMemories(input) returns the records of the store with a
\* score above 0 and no other, a record of a higher score before a record of
\* a lower score and records of the same score in the order of the store;
\* it returns the empty list when no keyword is extracted
RelevantRankedByDistinctKeywords ==
  last.op = "getRelevantMemories" =>
    /\ \A k \in 1..Len(items) :
         DistinctKeywordScore(items[k], last.query) > 0
           <=> \E j \in 1..Len(last.result) : last.result[j] = items[k]
    /\ \A j \in 1..Len(last.result) :
         \E k \in 1..Len(items) : items[k] = last.result[j]
    /\ \A i, j \in 1..Len(last.result) :
         i < j =>
           \/ DistinctKeywordScore(last.result[i], last.query)
                > DistinctKeywordScore(last.result[j], last.query)
           \/ /\ DistinctKeywordScore(last.result[i], last.query)
                  = DistinctKeywordScore(last.result[j], last.query)
              /\ IndexOfId(items, last.result[i].id)
                  < IndexOfId(items, last.result[j].id)
    /\ extractKeywordsUpTo10(last.query) = <<>> => last.result = <<>>

\* C18: for an input made of a text, "remember that " in any letter case, a
\* text X of one line and possibly a further line, the detector returns the
\* command remember with the content X trimmed and no description, also
\* when the text before holds a "make a note" trigger or matches the second
\* pattern
RememberThatWinsOverOtherPatterns ==
  \A p \in RememberPrefixes, t \in RememberTriggers, x \in RememberTexts,
     s \in Suffixes :
    (last.op = "detectMemoryCommand" /\ last.query = p \o t \o x \o s) =>
      last.result = <<Command("remember", FALSE, <<>>, trim(x))>>

\* the detector has answered for an input with a note trigger before
\* "remember that", and for one that matches the second pattern before it
RememberThatAfterNoteTrigger ==
  /\ last.op = "detectMemoryCommand"
  /\ last.query \in RememberInputs
  /\ MatchAtCI(last.query, 1, <<"m", "a", "k", "e", " ", "a", " ", "n", "o", "t", "e", " ", "t", "h", "a", "t", " ">>)
  /\ last.result[1].matched
  /\ last.result[1].type = "remember"

\* C19: for an input made of a text, "make a note that " or "make a note
\* about " in any letter case, a text X of one line and possibly a further
\* line, that neither remember pattern matches: when X is Y, " is " and Z,
\* with no " is " in Y, the detector returns the command note with the
\* description Y and the content Z, both trimmed; for the other X it returns
\* the command note with the content X trimmed and no description
NoteSplitsAtIs ==
  \A p \in Prefixes, t \in NoteTriggers, s \in Suffixes :
    /\ \A y \in NoteSubjects, z \in NoteFacts :
         (/\ last.op = "detectMemoryCommand"
          /\ last.query = p \o t \o y \o <<" ", "i", "s", " ">> \o z \o s) =>
           last.result = <<Command("note", TRUE, trim(y), trim(z))>>
    /\ \A x \in NoteTexts :
         (last.op = "detectMemoryCommand" /\ last.query = p \o t \o x \o s) =>
           last.result = <<Command("note", FALSE, <<>>, trim(x))>>

\* the detector has answered for "Make a note that my next appointment is
\* on Friday at 2pm"
NoteAppointmentSplit ==
  /\ last.op = "detectMemoryCommand"
  /\ last.query = <<"M", "a", "k", "e", " ", "a", " ", "n", "o", "t", "e", " ", "t", "h", "a", "t", " ", "m", "y", " ", "n", "e", "x", "t", " ", "a", "p", "p", "o", "i", "n", "t", "m", "e", "n", "t", " ", "i", "s", " ", "o", "n", " ", "F", "r", "i", "d", "a", "y", " ", "a", "t", " ", "2", "p", "m">>
  /\ last.result[1].type = "note"
  /\ last.result[1].description = <<"m", "y", " ", "n", "e", "x", "t", " ", "a", "p", "p", "o", "i", "n", "t", "m", "e", "n", "t">>
  /\ last.result[1].content = <<"o", "n", " ", "F", "r", "i", "d", "a", "y", " ", "a", "t", " ", "2", "p", "m">>

\* the input holds none of the words the three patterns start with
NoTriggerPhrase(input) ==
  /\ ~ContainsIgnoringCase(input, <<"r", "e", "m", "e", "m", "b", "e", "r">>)
  /\ ~ContainsIgnoringCase(input, <<"m", "a", "k", "e", " ", "a", " ", "n", "o", "t", "e">>)

\* C20: for an input with no trigger phrase the detector returns no match,
\* and generateResponse calls the provider's generate once and first; it
\* gets to considerUpdatingMemory only with the provider's response, which
\* considerUpdatingMemory is given together with the input; and it returns
\* only when considerUpdatingMemory has returned, and then the provider's
\* response
ModelPathInOrder ==
  \A r \in Reqs :
    (reqs[r].op = "generateResponse" /\ NoTriggerPhrase(reqs[r].input)) =>
      /\ ~Detected[reqs[r].input].matched
      /\ Len(reqs[r].calls) >= 1
      /\ \A k \in 1..Len(reqs[r].calls) : reqs[r].calls[k] = "generate" <=> k = 1
      /\ (reqs[r].mem.called \/ Len(reqs[r].calls) > 1) =>
           reqs[r].response.requestId = "provider"
      /\ reqs[r].status = "returned" =>
           /\ reqs[r].pc = "done"
           /\ reqs[r].mem.called
           /\ reqs[r].response.requestId = "provider"
           /\ reqs[r].input = <<>> => reqs[r].mem.error = "Invalid user input"
           /\ (reqs[r].input # <<>> /\ reqs[r].response.output = <<>>) =>
                reqs[r].mem.error = "Invalid agent output"
           /\ (reqs[r].input # <<>> /\ reqs[r].response.output # <<>>) =>
                reqs[r].calls = <<"generate", "functionCall">>

\* generateResponse has returned the provider's response for a question,
\* after a considerUpdatingMemory that changed the store
AnswerAfterMemoryUpdate ==
  \E r \in Reqs :
    /\ reqs[r].op = "generateResponse"
    /\ NoTriggerPhrase(reqs[r].input)
    /\ reqs[r].input # <<>>
    /\ reqs[r].status = "returned"
    /\ reqs[r].calls = <<"generate", "functionCall">>
    /\ reqs[r].response.output # <<>>
    /\ reqs[r].mem.updated

\* the maximal runs of word characters of the text in lower case: a
\* character that is no word character separates two tokens
TokenAt(text, i, j) ==
  /\ 1 <= i
  /\ i <= j
  /\ j <= Len(text)
  /\ \A k \in i..j : IsWordChar(text[k])
  /\ i > 1 => ~IsWordChar(text[i - 1])
  /\ j < Len(text) => ~IsWordChar(text[j + 1])

\* the position of the first token of the text that is the word, 0 if none
FirstTokenPosition(text, word) ==
  IF \E i \in 1..Len(text) :
       TokenAt(text, i, i + Len(word) - 1)
         /\ SubSeq(toLowerCase(text), i, i + Len(word) - 1) = word
    THEN CHOOSE i \in 1..Len(text) :
           /\ TokenAt(text, i, i + Len(word) - 1)
           /\ SubSeq(toLowerCase(text), i, i + Len(word) - 1) = word
           /\ \A h \in 1..(i - 1) :
                ~(TokenAt(text, h, h + Len(word) - 1)
                    /\ SubSeq(toLowerCase(text), h, h + Len(word) - 1) = word)
    ELSE 0

\* C21: what an extractKeywords returns for a text are tokens of the text
\* in lower case, longer than 2 characters and no stop-words; it holds every
\* such token, each once, in the order of their first occurrences
KeywordsAreDistinctLongTokens ==
  last.op \in {"extractKeywords", "extractKeywordsUpTo10"} =>
    /\ \A k \in 1..Len(last.result) :
         /\ Len(last.result[k]) > 2
         /\ last.result[k] \notin stopWords
         /\ FirstTokenPosition(last.query, last.result[k]) > 0
    /\ \A i, j \in 1..Len(last.result) :
         i < j => FirstTokenPosition(last.query, last.result[i])
                    < FirstTokenPosition(last.query, last.result[j])
    /\ \A i \in 1..Len(last.query), j \in 1..Len(last.query) :
         (/\ TokenAt(last.query, i, j)
          /\ j - i + 1 > 2
          /\ SubSeq(toLowerCase(last.query), i, j) \notin stopWords) =>
           \E k \in 1..Len(last.result) :
             last.result[k] = SubSeq(toLowerCase(last.query), i, j)

\* the first keyword of the input of which the first `keep` characters are
\* in the record's description or content, letter case ignored; 0 if none
FirstKeywordHit(input, item, keep) ==
  LET hits == {n \in 1..Len(Keywords[input]) :
                 \E kw \in {substring(Keywords[input][n], 0, keep)} :
                   \/ ContainsIgnoringCase(item.description, kw)
                   \/ ContainsIgnoringCase(item.content, kw)}
  IN  IF hits = {} THEN 0 ELSE CHOOSE n \in hits : \A m \in hits : n <= m

\* the used memories of a generateResponseWithMemory that waits for the
\* provider are the records of the store that a keyword hits and no other
\* record, each id once, a record of an earlier keyword first and the
\* records of one keyword in store order; the list stays as it is while
\* the provider answers and considerUpdatingMemory runs
UsedMemoriesAreHits(r, keep) ==
  (reqs[r].op = "generateResponseWithMemory"
     /\ reqs[r].pc \in {"generate", "functionCall"}) =>
    /\ reqs'[r].usedMemories = reqs[r].usedMemories
    /\ reqs[r].pc = "generate" =>
         \E used \in {reqs[r].usedMemories}, input \in {reqs[r].input} :
           /\ \A k \in 1..Len(items) :
                FirstKeywordHit(input, items[k], keep) > 0
                  <=> \E j \in 1..Len(used) : used[j] = items[k]
           /\ \A j \in 1..Len(used) :
                \E k \in 1..Len(items) : items[k] = used[j]
           /\ \A i, j \in 1..Len(used) :
                i < j =>
                  /\ used[i].id # used[j].id
                  /\ \/ FirstKeywordHit(input, used[i], keep)
                          < FirstKeywordHit(input, used[j], keep)
                     \/ /\ FirstKeywordHit(input, used[i], keep)
                            = FirstKeywordHit(input, used[j], keep)
                        /\ IndexOfId(items, used[i].id)
                            < IndexOfId(items, used[j].id)

AnswersWithItems(fc) ==
  /\ fc.toolCalls
  /\ fc.name = "update_agent_memory"
  /\ fc.args = "object"
  /\ fc.should_update
  /\ fc.isArray

\* the item has its required fields
HasRequiredFields(item) ==
  /\ item.action \in {"create", "update"}
  /\ item.description # <<>>
  /\ item.content # <<>>
  /\ item.action = "update" => item.id # ""

\* the j-th number of a set of numbers
Nth(numbers, j) ==
  CHOOSE k \in numbers : Cardinality({m \in numbers : m < k}) = j - 1

\* the call of considerUpdatingMemory that the answer fc ends has handled,
\* in list order, exactly the items whose numbers are in `numbers`: one
\* entry for each, a create stored under the generated id with the
\* sanitized texts, an update applied to its id if a record has it by then;
\* the store holds what the last entry of each id says
HandledInOrder(r, fc, idOf, numbers) ==
  \E list \in {fc.memory_items}, mem \in {reqs'[r].mem} :
    /\ mem.updated
    /\ mem.reasoning = "model"
    /\ Len(mem.updates) = Cardinality(numbers)
    /\ \A j \in 1..Len(mem.updates) :
         \E entry \in {mem.updates[j]}, item \in {list[Nth(numbers, j)]} :
           /\ entry.action = (IF item.action = "create" THEN "created" ELSE "updated")
           /\ entry.found <=>
                \/ item.action = "create"
                \/ IndexOfId(items, item.id) # 0
                \/ \E i \in 1..(j - 1) :
                     /\ list[Nth(numbers, i)].action = "create"
                     /\ idOf[Nth(numbers, i)] = item.id
           /\ entry.found =>
                /\ entry.item.id
                     = (IF item.action = "create" THEN idOf[Nth(numbers, j)] ELSE item.id)
                /\ entry.item.description = sanitizeContent(item.description)
                /\ entry.item.content = sanitizeContent(item.content)
                /\ entry.item.updatedAt = now
                /\ (\A i \in (j + 1)..Len(mem.updates) :
                      mem.updates[i].item.id # entry.item.id)
                     => /\ IndexOfId(items', entry.item.id) # 0
                        /\ items'[IndexOfId(items', entry.item.id)] = entry.item
    /\ \A k \in 1..Len(items) :
         (\A j \in 1..Len(mem.updates) :
            ~mem.updates[j].found \/ mem.updates[j].item.id # items[k].id)
           => /\ k <= Len(items')
              /\ items'[k] = items[k]
    /\ \A k \in 1..Len(items') :
         \/ \E j \in 1..Len(mem.updates) :
              mem.updates[j].found /\ mem.updates[j].item.id = items'[k].id
         \/ k <= Len(items) /\ items[k] = items'[k]

ConsiderStoresDetectedCommand ==
  [][\A r \in Reqs, input \in UserInputs, output \in ProviderOutputs, id \in Ids :
       (UpdateMemoryAfterStream(r, input, output, id) /\ Detected[input].matched) =>
         \E req \in {reqs'[r]} :
           /\ req.status = "returned"
           /\ req.calls = <<>>
           /\ req.mem.updated
           /\ req.mem.reasoning = "explicit"
           /\ Len(req.mem.updates) = 1
           /\ req.mem.updates[1].action = "created"
           /\ req.mem.updates[1].found
           /\ req.mem.updates[1].item.id = id
           /\ req.mem.updates[1].item.content = sanitizeContent(Detected[input].content)
           /\ IndexOfId(items', id) # 0
           /\ items'[IndexOfId(items', id)] = req.mem.updates[1].item]_vars

\* the texts of the delta events of a stream, one after the other
RECURSIVE DeltaText(_)
DeltaText(chunks) ==
  IF chunks = <<>> THEN <<>>
  ELSE (IF includes(Head(chunks).type, <<"d", "e", "l", "t", "a">>) THEN Head(chunks).delta ELSE <<>>)
       \o DeltaText(Tail(chunks))

\* C25: for a streamed turn updateMemoryAfterStream is called once, when
\* the stream has ended: never before every delta of the stream is
\* accumulated, never twice, once when the turn has read the whole stream,
\* and its output argument is the text of all deltas in order
StreamUpdatesMemoryOnceAtEnd ==
  \A r \in Reqs :
    reqs[r].op = "streamResponse" =>
      /\ Len(reqs[r].afterStream) <= 1
      /\ \A j \in 1..Len(reqs[r].afterStream) :
           reqs[r].afterStream[j] = DeltaText(reqs[r].chunks)
      /\ (reqs[r].status = "returned" /\ reqs[r].next > Len(reqs[r].chunks))
           => Len(reqs[r].afterStream) = 1

\* the record with the fields the update_memory tool call names set to
\* their sanitized texts, as stored at time t
WithNamedFields(record, tc, t) ==
  [record EXCEPT
     !.description = IF tc.description # <<>> THEN sanitizeContent(tc.description) ELSE @,
     !.content = IF tc.content # <<>> THEN sanitizeContent(tc.content) ELSE @,
     !.updatedAt = t]

\* the request has returned from an update_memory tool call that found its
\* record
ReturnedFromUpdate(req) ==
  /\ req.op = "processMemoryToolCall"
  /\ req.status = "returned"
  /\ req.tool.tool = "update_memory"
  /\ req.tool.found

\* C26: with the provider calls as the only suspension points, create,
\* update and delete of the store take effect atomically: an update that
\* returns while another request is under way changes the record as it is
\* in the store at that moment and only the fields it names, so after two
\* requests updated one id the record is the result of the two updates one
\* after the other, and updates of different fields both survive
ConcurrentUpdatesSerialize ==
  [][\A r \in Reqs, tc \in ConcurrentToolCalls, id \in Ids :
       (ProviderToolCallReturns(r, tc, id) /\ tc.name = "update_memory"
          /\ IndexOfId(items, tc.id) # 0) =>
         \E j \in {IndexOfId(items, tc.id)} :
           /\ items' = [items EXCEPT ![j] = WithNamedFields(items[j], tc, now)]
           /\ ReturnedFromUpdate(reqs'[r])
           /\ reqs'[r].tool.result = <<items'[j]>>
           /\ \A q \in Reqs \ {r} :
                (ReturnedFromUpdate(reqs[q]) /\ reqs[q].tool.result = <<items[j]>>) =>
                  /\ items'[j] = WithNamedFields(reqs[q].tool.result[1], tc, now)
                  /\ tc.description = <<>> => items'[j].description = reqs[q].tool.result[1].description
                  /\ tc.content = <<>> => items'[j].content = reqs[q].tool.result[1].content]_vars

\* two requests were under way at once, one has set the description and
\* the other the content of the same record, and the record has both
BothUpdatesSurvive ==
  /\ ReturnedFromUpdate(reqs["r1"])
  /\ ReturnedFromUpdate(reqs["r2"])
  /\ Len(items) = 1
  /\ items[1].id = "id1"
  /\ items[1].description = <<"s", "k", "y">>
  /\ items[1].content = <<"d", "o", "g">>
  /\ reqs["r1"].tool.result[1].description = <<"s", "k", "y">>
  /\ reqs["r1"].tool.result[1].content = <<"c", "a", "t">>
  /\ reqs["r2"].tool.result = <<items[1]>>

\* C27: one turn creates at most one record from the memory command of its
\* input, also a streamed turn: streamResponse and the
\* updateMemoryAfterStream at the end of the stream
OneRecordPerCommand ==
  \A r \in Reqs : reqs[r].commandRecords <= 1
\* the records of the process: those of either MemoryService
AllRecords == Range(items) \cup Range(controllerItems)

\* C28: the process has one record collection: getAllMemories on either
\* read path returns every record created on any write path, and the
\* retrieval of generateResponseWithMemory finds every record that a
\* keyword of the input hits
OneRecordCollection ==
  [][/\ AgentGetAllMemories => AllRecords' \subseteq Range(last'.result)
     /\ ControllerGetAll => AllRecords' \subseteq Range(last'.result)
     /\ \A r \in Reqs :
          (/\ reqs'[r].op = "generateResponseWithMemory"
           /\ reqs[r].pc # "generate"
           /\ reqs'[r].pc = "generate") =>
            \A record \in AllRecords' :
              FirstKeywordHit(reqs'[r].input, record, MAX_QUERY_LENGTH) > 0
                => record \in Range(reqs'[r].usedMemories)]_vars

\* C29: when considerUpdatingMemory returns with a list of updates, every
\* entry of the list has an item, and the item is the record the store
\* holds under its id
UpdatesDescribeStoredRecords ==
  [][\A r \in Reqs :
       (/\ reqs'[r] # reqs[r]
        /\ reqs'[r].status = "returned"
        /\ reqs'[r].mem.updated) =>
         \A j \in 1..Len(reqs'[r].mem.updates) :
           \E e \in {reqs'[r].mem.updates[j]} :
             /\ e.found
             /\ IndexOfId(items', e.item.id) > 0
             /\ items'[IndexOfId(items', e.item.id)] = e.item]_vars

\* C30: a call of considerUpdatingMemory that reports updated = false has
\* left the store as it was: the step in which it returns, the only one in
\* which it writes, changes no record
NotUpdatedLeavesStore ==
  [][\A r \in Reqs :
       (/\ reqs'[r] # reqs[r]
        /\ reqs'[r].op = "updateMemoryAfterStream"
        /\ reqs'[r].status = "returned"
        /\ ~reqs'[r].mem.updated) => items' = items]_vars

====
